---------------------------- MODULE Spec2Model ----------------------------
(***************************************************************************)
(* Model of eo-identifiers: the primitive token parsers and the temporal   *)
(* parsers of common_parsers.rs, the grammars of identifiers/*.rs and the  *)
(* dispatcher Identifier::from_str of from_str.rs.                         *)
(*                                                                         *)
(* A &str is a sequence of characters, each character a one-element        *)
(* string.  A parser is an operator from the remaining input to one of     *)
(*   [tag |-> "Ok", rest, val]   IResult's Ok((rest, val))                 *)
(*   [tag |-> "Error", input]    Err(nom::Err::Error(e)), e.input = input  *)
(*   [tag |-> "Incomplete", needed]  Err(nom::Err::Incomplete(needed))      *)
(*   [tag |-> "Panic", msg]      the call unwinds with a panic             *)
(***************************************************************************)
EXTENDS Integers, Sequences, FiniteSets, TLC

VARIABLES
    call,       \* the function called and its arguments other than the &str
    input,      \* the &str argument
    pc,         \* position of the call
    result,     \* what the call returned, "none" before it returns
    closest_e,  \* Identifier::from_str's local closest_e
    closest_by, \* history: the grammar whose error closest_e holds, 0 for the initial value
    attempts,   \* history: the Result of every map_parser(grammar)(s) made so far
    s1          \* what the sentinel1 grammars do on input

vars == <<call, input, pc, result, closest_e, closest_by, attempts, s1>>

--------------------------------------------------------------------------
(* Characters and strings                                                  *)

Digits == <<"0", "1", "2", "3", "4", "5", "6", "7", "8", "9">>

UpperLetters ==
    <<"A", "B", "C", "D", "E", "F", "G", "H", "I", "J", "K", "L", "M",
      "N", "O", "P", "Q", "R", "S", "T", "U", "V", "W", "X", "Y", "Z">>

LowerLetters ==
    <<"a", "b", "c", "d", "e", "f", "g", "h", "i", "j", "k", "l", "m",
      "n", "o", "p", "q", "r", "s", "t", "u", "v", "w", "x", "y", "z">>

Range(f) == {f[k] : k \in DOMAIN f}

DigitSet == Range(Digits)

UpperSet == Range(UpperLetters)

LowerSet == Range(LowerLetters)

IndexOf(c, seq) == CHOOSE k \in DOMAIN seq : seq[k] = c

Min(S) == CHOOSE x \in S : \A y \in S : x <= y

\* the element of a one-element set.  Only({e(v) : v \in {x}}) is "let v = x; e(v)":
\* x is evaluated once and v names its value
Only(S) == CHOOSE x \in S : TRUE

Max(S) == CHOOSE x \in S : \A y \in S : x >= y

\* a character that is a letter but not ASCII; it takes two bytes in UTF-8
NonAsciiLetter == "e-acute"

Utf8Len(c) == IF c = NonAsciiLetter THEN 2 ELSE 1

RECURSIVE len(_)
\* str::len: the length in bytes
len(s) == IF s = <<>> THEN 0 ELSE Utf8Len(Head(s)) + len(Tail(s))

to_ascii_lowercase(c) == IF c \in UpperSet THEN LowerLetters[IndexOf(c, UpperLetters)] ELSE c

to_ascii_uppercase(c) == IF c \in LowerSet THEN UpperLetters[IndexOf(c, LowerLetters)] ELSE c

\* str::to_uppercase, on the characters the parsers let through
to_uppercase(s) == [k \in DOMAIN s |-> to_ascii_uppercase(s[k])]

to_lowercase(s) == [k \in DOMAIN s |-> to_ascii_lowercase(s[k])]

Take(s, n) == SubSeq(s, 1, n)

Drop(s, n) == SubSeq(s, n + 1, Len(s))

--------------------------------------------------------------------------
(* nom's results and the combinators the crate uses                        *)

Ok(rest, val) == [tag |-> "Ok", rest |-> rest, val |-> val]

Error(i) == [tag |-> "Error", input |-> i]

Panic(msg) == [tag |-> "Panic", msg |-> msg]

None == [some |-> FALSE]

Some(v) == [some |-> TRUE, val |-> v]

\* nom::bytes::complete::tag
tag(t, i) ==
    IF Len(i) >= Len(t) /\ Take(i, Len(t)) = t THEN Ok(Drop(i, Len(t)), Take(i, Len(t)))
    ELSE Error(i)

\* nom::bytes::complete::tag_no_case
tag_no_case(t, i) ==
    IF Len(i) >= Len(t) /\ to_lowercase(Take(i, Len(t))) = to_lowercase(t)
    THEN Ok(Drop(i, Len(t)), Take(i, Len(t)))
    ELSE Error(i)

\* nom::character::complete::char
char(c, i) == IF i # <<>> /\ Head(i) = c THEN Ok(Tail(i), c) ELSE Error(i)

\* nom::bytes::complete::take: n characters
take(n, i) == IF Len(i) >= n THEN Ok(Drop(i, n), Take(i, n)) ELSE Error(i)

\* str::position(|c| !cond(c)), cond given as the set of characters satisfying it:
\* the number of leading characters of i in cond, counted up to limit + 1
LeadingCount(cond, i, limit) ==
    LET upto == IF Len(i) <= limit THEN Len(i) ELSE limit + 1
        bad == {k \in 1..upto : i[k] \notin cond}
    IN  IF bad = {} THEN upto ELSE Min(bad) - 1

\* nom::bytes::complete::take_while_m_n, cond a set of ASCII characters
take_while_m_n(m, n, cond, i) ==
    Only({ IF idx >= m
           THEN (IF idx <= n THEN Ok(Drop(i, idx), Take(i, idx)) ELSE Ok(Drop(i, n), Take(i, n)))
           ELSE Error(i)
         : idx \in {LeadingCount(cond, i, n)} })

\* nom::bytes::complete::take_while
take_while(cond, i) ==
    Only({ Ok(Drop(i, idx), Take(i, idx)) : idx \in {LeadingCount(cond, i, Len(i))} })

\* nom::combinator::opt, given the result r of the inner parser on i
opt(r, i) ==
    Only({ IF x.tag = "Error" THEN Ok(i, None)
           ELSE IF x.tag = "Ok" THEN Ok(x.rest, Some(x.val))
           ELSE x
         : x \in {r} })

--------------------------------------------------------------------------
(* Integer types: <T as FromStr>::from_str on a run of ASCII digits        *)

IntTypes == {"u8", "u32", "i64"}

\* T::MAX in decimal
MaxDecimal(T) ==
    CASE T = "u8" -> <<"2", "5", "5">>
      [] T = "u32" -> <<"4", "2", "9", "4", "9", "6", "7", "2", "9", "5">>
      [] T = "i64" -> <<"9", "2", "2", "3", "3", "7", "2", "0", "3", "6",
                        "8", "5", "4", "7", "7", "5", "8", "0", "7">>

DigitValue(c) == IndexOf(c, Digits) - 1

RECURSIVE StripZeros(_)
StripZeros(d) == IF d # <<>> /\ Head(d) = "0" THEN StripZeros(Tail(d)) ELSE d

RECURSIVE DecimalLess(_, _)
\* a < b for two digit runs of the same length
DecimalLess(a, b) ==
    IF a = <<>> THEN FALSE
    ELSE IF DigitValue(Head(a)) # DigitValue(Head(b)) THEN DigitValue(Head(a)) < DigitValue(Head(b))
    ELSE DecimalLess(Tail(a), Tail(b))

\* the number a digit run denotes is larger than T::MAX
Overflows(d, T) ==
    LET a == StripZeros(d)
        b == MaxDecimal(T)
    IN  Len(a) > Len(b) \/ (Len(a) = Len(b) /\ DecimalLess(b, a))

RECURSIVE DecimalValue(_, _)
DecimalValue(d, acc) ==
    IF d = <<>> THEN acc ELSE DecimalValue(Tail(d), 10 * acc + DigitValue(Head(d)))

\* str::parse::<T>(): Err on the empty string, on a non-digit and on overflow
str_parse(d, T) ==
    IF d = <<>> \/ \E k \in DOMAIN d : d[k] \notin DigitSet THEN [ok |-> FALSE]
    ELSE IF Overflows(d, T) THEN [ok |-> FALSE]
    ELSE [ok |-> TRUE, val |-> DecimalValue(d, 0)]

--------------------------------------------------------------------------
(* common_parsers.rs                                                       *)

\* chr.is_ascii() && is_alphanumeric(chr as u8), as the set of characters it holds of
is_char_alphanumeric == DigitSet \cup UpperSet \cup LowerSet

take_alphanumeric(i) == take_while(is_char_alphanumeric, i)

take_alphanumeric_n(n, i) == take_while_m_n(n, n, is_char_alphanumeric, i)

\* chr.is_ascii() && is_digit(chr as u8), as the set of characters it holds of
is_char_digit == DigitSet

take_n_digits(n, T, i) ==
    Only({ IF r.tag # "Ok" THEN r ELSE                                   \* ?
    Only({ IF res.ok THEN Ok(r.rest, res.val)
           ELSE Panic("Invalid string, expected ASCII representation of a number")
         : res \in {str_parse(r.val, T)} })
         : r \in {take_while_m_n(n, n, is_char_digit, i)} })

\* take_n_digits_in_range without the test of the range
take_n_digits_in_any_range(n, T, lo, hi, i) == take_n_digits(n, T, i)

take_n_digits_in_range(n, T, lo, hi, i) ==
    Only({ IF r.tag # "Ok" THEN r                                        \* ?
           ELSE IF lo <= r.val /\ r.val <= hi THEN Ok(r.rest, r.val)
           ELSE Error(i)
         : r \in {take_n_digits(n, T, i)} })

\* sign reading '-' as '+'
sign_always_plus(i) ==
    Only({ IF minus.tag = "Ok" THEN Ok(minus.rest, 1) ELSE
    Only({ IF plus.tag = "Ok" THEN Ok(plus.rest, 1) ELSE plus
         : plus \in {tag(<<"+">>, i)} })
         : minus \in {tag(<<"-">>, i)} })

sign(i) ==
    Only({ IF minus.tag = "Ok" THEN Ok(minus.rest, -1) ELSE
    Only({ IF plus.tag = "Ok" THEN Ok(plus.rest, 1) ELSE plus
         : plus \in {tag(<<"+">>, i)} })
         : minus \in {tag(<<"-">>, i)} })

date_year(i) ==
    Only({
    Only({ IF year.tag # "Ok" THEN year
           ELSE Ok(year.rest, (IF s.val.some THEN s.val.val ELSE 1) * year.val)
         : year \in {take_n_digits(4, "u32", s.rest)} })
         : s \in {opt(sign(i), i)} })

date_month(i) == take_n_digits_in_range(2, "u32", 1, 12, i)

date_day(i) == take_n_digits_in_range(2, "u32", 1, 31, i)

time_hour(i) == take_n_digits_in_range(2, "u32", 0, 24, i)

time_minute(i) == take_n_digits_in_range(2, "u32", 0, 59, i)

time_second(i) == take_n_digits_in_range(2, "u32", 0, 60, i)

\* t_separator as it would be with tag("T") in place of tag_no_case("t")
t_separator_upper_only(i) ==
    Only({ IF r.tag = "Ok" THEN Ok(r.rest, "unit") ELSE r : r \in {tag(<<"T">>, i)} })

t_separator(i) ==
    Only({ IF r.tag = "Ok" THEN Ok(r.rest, "unit") ELSE r : r \in {tag_no_case(<<"t">>, i)} })

--------------------------------------------------------------------------
(* chrono, as far as common_parsers.rs and landsat.rs call it.  Every year  *)
(* a 4-digit field can hold lies within chrono's range of years.            *)

is_leap_year(y) == y % 4 = 0 /\ (y % 100 # 0 \/ y % 400 = 0)

days_in_month(y, m) ==
    CASE m \in {1, 3, 5, 7, 8, 10, 12} -> 31
      [] m \in {4, 6, 9, 11} -> 30
      [] m = 2 -> IF is_leap_year(y) THEN 29 ELSE 28

days_in_year(y) == IF is_leap_year(y) THEN 366 ELSE 365

NaiveDate(y, m, d) == [year |-> y, month |-> m, day |-> d]

\* NaiveDate::from_ymd_opt
from_ymd_opt(y, m, d) ==
    IF m >= 1 /\ m <= 12 /\ d >= 1 /\ d <= days_in_month(y, m) THEN Some(NaiveDate(y, m, d))
    ELSE None

\* NaiveTime::from_hms_opt
from_hms_opt(h, mn, sec) ==
    IF h < 24 /\ mn < 60 /\ sec < 60 THEN Some([hour |-> h, minute |-> mn, second |-> sec])
    ELSE None

\* NaiveDateTime::new
NaiveDateTime(date, time) == [date |-> date, time |-> time]

RECURSIVE ordinal_before(_, _)
\* the days of year y before month m starts
ordinal_before(y, m) == IF m = 1 THEN 0 ELSE ordinal_before(y, m - 1) + days_in_month(y, m - 1)

\* NaiveDate::ordinal
ordinal(date) == ordinal_before(date.year, date.month) + date.day

RECURSIVE from_yo(_, _)
\* the date of year y whose ordinal is o, counting on into the years before and after y
from_yo(y, o) ==
    IF o < 1 THEN from_yo(y - 1, o + days_in_year(y - 1))
    ELSE IF o > days_in_year(y) THEN from_yo(y + 1, o - days_in_year(y))
    ELSE LET m == Max({k \in 1..12 : ordinal_before(y, k) < o})
         IN  NaiveDate(y, m, o - ordinal_before(y, m))

\* NaiveDate + Duration::days(n)
add_days(date, n) == from_yo(date.year, ordinal(date) + n)

--------------------------------------------------------------------------
(* common_parsers.rs: the temporal parsers                                 *)

parse_simple_date(s) ==
    Only({ IF y.tag # "Ok" THEN y ELSE
    Only({ IF m.tag # "Ok" THEN m ELSE
    Only({ IF d.tag # "Ok" THEN d ELSE
    Only({ IF date.some THEN Ok(d.rest, date.val)                        \* NaiveDate::from_ymd
           ELSE Panic("invalid or out-of-range date")
         : date \in {from_ymd_opt(y.val, m.val, d.val)} })
         : d \in {date_day(m.rest)} })
         : m \in {date_month(y.rest)} })
         : y \in {date_year(s)} })

parse_simple_time(s) ==
    Only({ IF h.tag # "Ok" THEN h ELSE
    Only({ IF mn.tag # "Ok" THEN mn ELSE
    Only({ IF sec.tag # "Ok" THEN sec ELSE
    Only({ IF time.some THEN Ok(sec.rest, time.val)                      \* NaiveTime::from_hms
           ELSE Panic("invalid time")
         : time \in {from_hms_opt(h.val, mn.val, sec.val)} })
         : sec \in {time_second(mn.rest)} })
         : mn \in {time_minute(h.rest)} })
         : h \in {time_hour(s)} })

parse_esa_timestamp(s) ==
    Only({ IF date.tag # "Ok" THEN date ELSE
    Only({
    Only({ IF time.tag # "Ok" THEN time
           ELSE Ok(time.rest, NaiveDateTime(date.val, time.val))
         : time \in {parse_simple_time(sep.rest)} })
         : sep \in {opt(t_separator(date.rest), date.rest)} })
         : date \in {parse_simple_date(s)} })

--------------------------------------------------------------------------
(* landsat.rs: the Julian date                                             *)

\* parse_julian_date as it would be with Duration::days(day_of_year)
parse_julian_date_from_day_zero(s) ==
    Only({ IF year.tag # "Ok" THEN year ELSE
    Only({ IF day_of_year.tag # "Ok" THEN day_of_year ELSE
    Only({ IF ~jan1.some THEN Error(year.rest)
           ELSE Ok(day_of_year.rest, add_days(jan1.val, day_of_year.val))
         : jan1 \in {from_ymd_opt(year.val, 1, 1)} })
         : day_of_year \in {take_n_digits(3, "i64", year.rest)} })
         : year \in {date_year(s)} })

parse_julian_date(s) ==
    Only({ IF year.tag # "Ok" THEN year ELSE
    Only({ IF day_of_year.tag # "Ok" THEN day_of_year ELSE
    Only({ IF ~jan1.some THEN Error(year.rest)
           ELSE Ok(day_of_year.rest, add_days(jan1.val, day_of_year.val - 1))
         : jan1 \in {from_ymd_opt(year.val, 1, 1)} })
         : day_of_year \in {take_n_digits(3, "i64", year.rest)} })
         : year \in {date_year(s)} })

--------------------------------------------------------------------------
(* nom::branch::alt over map(tag_no_case(t), |_| v): table lists the pairs  *)
(* [t, v] in order; the first tag that matches wins, and when none does    *)
(* the error is the last branch's, positioned at i like all of them        *)

alt_tag_no_case(table, i) ==
    Only({ IF hits = {} THEN Error(i)
           ELSE Ok(Drop(i, Len(table[Min(hits)].t)), table[Min(hits)].v)
         : hits \in {{k \in DOMAIN table : tag_no_case(table[k].t, i).tag = "Ok"}} })

--------------------------------------------------------------------------
(* identifiers/sentinel2.rs                                                *)

s2_consume_product_sep(s) == char("_", s)

s2_parse_mission_id(s) ==
    alt_tag_no_case(<<[t |-> <<"s", "2", "a">>, v |-> "S2A"], [t |-> <<"s", "2", "b">>, v |-> "S2B"]>>, s)

parse_product_level(s) ==
    alt_tag_no_case(<<[t |-> <<"l", "1", "c">>, v |-> "L1C"], [t |-> <<"l", "2", "a">>, v |-> "L2A"]>>, s)

\* parse_processing_baseline_number returning (y, x)
parse_processing_baseline_number_swapped(s) ==
    Only({ IF n.tag # "Ok" THEN n ELSE
    Only({ IF x.tag # "Ok" THEN x ELSE
    Only({ IF y.tag # "Ok" THEN y ELSE Ok(y.rest, <<y.val, x.val>>)
         : y \in {take_n_digits_in_range(2, "u8", 0, 99, x.rest)} })
         : x \in {take_n_digits_in_range(2, "u8", 0, 99, n.rest)} })
         : n \in {tag_no_case(<<"n">>, s)} })

parse_processing_baseline_number(s) ==
    Only({ IF n.tag # "Ok" THEN n ELSE
    Only({ IF x.tag # "Ok" THEN x ELSE
    Only({ IF y.tag # "Ok" THEN y ELSE Ok(y.rest, <<x.val, y.val>>)
         : y \in {take_n_digits_in_range(2, "u8", 0, 99, x.rest)} })
         : x \in {take_n_digits_in_range(2, "u8", 0, 99, n.rest)} })
         : n \in {tag_no_case(<<"n">>, s)} })

parse_relative_orbit_number(s) ==
    Only({ IF r.tag # "Ok" THEN r ELSE
    Only({ IF ron.tag # "Ok" THEN ron ELSE Ok(ron.rest, ron.val)
         : ron \in {take_n_digits_in_range(3, "u8", 1, 143, r.rest)} })
         : r \in {tag_no_case(<<"r">>, s)} })

parse_tile_number(s) ==
    Only({ IF t.tag # "Ok" THEN t ELSE
    Only({ IF tn.tag # "Ok" THEN tn ELSE Ok(tn.rest, to_uppercase(tn.val))
         : tn \in {take_alphanumeric_n(5, t.rest)} })
         : t \in {tag_no_case(<<"t">>, s)} })

s2_parse_product(s) ==
    Only({ IF mission_id.tag # "Ok" THEN mission_id ELSE
    Only({ IF sep1.tag # "Ok" THEN sep1 ELSE
    Only({ IF msi.tag # "Ok" THEN msi ELSE
    Only({ IF product_level.tag # "Ok" THEN product_level ELSE
    Only({ IF sep2.tag # "Ok" THEN sep2 ELSE
    Only({ IF start_datetime.tag # "Ok" THEN start_datetime ELSE
    Only({ IF sep3.tag # "Ok" THEN sep3 ELSE
    Only({ IF pdgs_baseline_number.tag # "Ok" THEN pdgs_baseline_number ELSE
    Only({ IF sep4.tag # "Ok" THEN sep4 ELSE
    Only({ IF relative_orbit_number.tag # "Ok" THEN relative_orbit_number ELSE
    Only({ IF sep5.tag # "Ok" THEN sep5 ELSE
    Only({ IF tile_number.tag # "Ok" THEN tile_number ELSE
    Only({ IF sep6.tag # "Ok" THEN sep6 ELSE
    Only({ IF product_discriminator.tag # "Ok" THEN product_discriminator ELSE
           Ok(product_discriminator.rest,
              [mission_id |-> mission_id.val,
               product_level |-> product_level.val,
               start_datetime |-> start_datetime.val,
               pdgs_baseline_number |-> pdgs_baseline_number.val,
               relative_orbit_number |-> relative_orbit_number.val,
               tile_number |-> tile_number.val,
               product_discriminator |-> to_uppercase(product_discriminator.val)])
         : product_discriminator \in {take_alphanumeric_n(15, sep6.rest)} })
         : sep6 \in {s2_consume_product_sep(tile_number.rest)} })
         : tile_number \in {parse_tile_number(sep5.rest)} })
         : sep5 \in {s2_consume_product_sep(relative_orbit_number.rest)} })
         : relative_orbit_number \in {parse_relative_orbit_number(sep4.rest)} })
         : sep4 \in {s2_consume_product_sep(pdgs_baseline_number.rest)} })
         : pdgs_baseline_number \in {parse_processing_baseline_number(sep3.rest)} })
         : sep3 \in {s2_consume_product_sep(start_datetime.rest)} })
         : start_datetime \in {parse_esa_timestamp(sep2.rest)} })
         : sep2 \in {s2_consume_product_sep(product_level.rest)} })
         : product_level \in {parse_product_level(msi.rest)} })
         : msi \in {tag_no_case(<<"m", "s", "i">>, sep1.rest)} })
         : sep1 \in {s2_consume_product_sep(mission_id.rest)} })
         : mission_id \in {s2_parse_mission_id(s)} })

--------------------------------------------------------------------------
(* identifiers/landsat.rs                                                  *)

\* impl From<u8> for MissionId
MissionId_from(v) ==
    IF v \in 1..9 THEN Ok(<<>>, <<"Landsat", v>>) ELSE Panic("invalid landsat satellite number")

\* parse_sensor with the letters C and O exchanged
\* parse_sensor taking any character for a sensor
parse_sensor_any_character(s, mission) ==
    IF s = <<>> THEN Error(s) ELSE Ok(Tail(s), "MSS")

\* parse_sensor reading T as TM for every mission
parse_sensor_t_for_tm(s, mission) ==
    alt_tag_no_case(<<[t |-> <<"c">>, v |-> "OLI_TRIS"],
                      [t |-> <<"o">>, v |-> "OLI"],
                      [t |-> <<"t">>, v |-> "TM"],
                      [t |-> <<"e">>, v |-> "ETM_PLUS"],
                      [t |-> <<"m">>, v |-> "MSS"]>>, s)

parse_sensor_c_for_oli(s, mission) ==
    alt_tag_no_case(<<[t |-> <<"c">>, v |-> "OLI"],
                      [t |-> <<"o">>, v |-> "OLI_TRIS"],
                      [t |-> <<"t">>, v |-> IF mission = 4 \/ mission = 5 THEN "TM" ELSE "IRS"],
                      [t |-> <<"e">>, v |-> "ETM_PLUS"],
                      [t |-> <<"m">>, v |-> "MSS"]>>, s)

parse_sensor(s, mission) ==
    alt_tag_no_case(<<[t |-> <<"c">>, v |-> "OLI_TRIS"],
                      [t |-> <<"o">>, v |-> "OLI"],
                      [t |-> <<"t">>, v |-> IF mission = 4 \/ mission = 5 THEN "TM" ELSE "IRS"],
                      [t |-> <<"e">>, v |-> "ETM_PLUS"],
                      [t |-> <<"m">>, v |-> "MSS"]>>, s)

parse_scene_id(s) ==
    Only({ IF s_sensor.tag # "Ok" THEN s_sensor ELSE
    Only({ IF any.tag # "Ok" THEN any ELSE
    Only({ IF mission.tag # "Ok" THEN mission ELSE
    Only({ IF sensor.tag # "Ok" THEN sensor ELSE
    Only({ IF wrs_path.tag # "Ok" THEN wrs_path ELSE
    Only({ IF wrs_row.tag # "Ok" THEN wrs_row ELSE
    Only({ IF acquire_date.tag # "Ok" THEN acquire_date ELSE
    Only({ IF ground_station_identifier.tag # "Ok" THEN ground_station_identifier ELSE
    Only({ IF archive_version_number.tag # "Ok" THEN archive_version_number ELSE
    Only({ IF mission_id.tag # "Ok" THEN mission_id ELSE
           Ok(archive_version_number.rest,
              [sensor |-> sensor.val,
               mission |-> mission_id.val,
               wrs_path |-> wrs_path.val,
               wrs_row |-> wrs_row.val,
               acquire_date |-> acquire_date.val,
               ground_station_identifier |-> to_uppercase(ground_station_identifier.val),
               archive_version_number |-> archive_version_number.val])
         : mission_id \in {MissionId_from(mission.val)} })
         : archive_version_number \in {take_n_digits(2, "u8", ground_station_identifier.rest)} })
         : ground_station_identifier \in {take_alphanumeric_n(3, acquire_date.rest)} })
         : acquire_date \in {parse_julian_date(wrs_row.rest)} })
         : wrs_row \in {take_n_digits(3, "u32", wrs_path.rest)} })
         : wrs_path \in {take_n_digits(3, "u32", mission.rest)} })
         : sensor \in {parse_sensor(s_sensor.rest, mission.val)} })
         : mission \in {take_n_digits_in_range(1, "u8", 1, 9, any.rest)} })
         : any \in {take(1, s_sensor.rest)} })
         : s_sensor \in {tag_no_case(<<"L">>, s)} })

landsat_consume_product_sep(s) == tag(<<"_">>, s)

parse_processing_level(s) ==
    Only({ IF known.tag = "Ok" THEN known ELSE
    Only({ Ok(pl.rest, <<"Other", to_uppercase(pl.val)>>)
         : pl \in {take_alphanumeric(s)} })
         : known \in {alt_tag_no_case(<<[t |-> <<"l", "1", "t", "p">>, v |-> <<"L1TP">>],
                                        [t |-> <<"l", "1", "g", "s">>, v |-> <<"L1GS">>],
                                        [t |-> <<"l", "1", "g", "t">>, v |-> <<"L1GT">>],
                                        [t |-> <<"l", "2", "s", "p">>, v |-> <<"L2SP">>],
                                        [t |-> <<"l", "2", "s", "r">>, v |-> <<"L2SR">>],
                                        [t |-> <<"c", "u">>, v |-> <<"CU">>],
                                        [t |-> <<"a", "k">>, v |-> <<"AK">>],
                                        [t |-> <<"h", "i">>, v |-> <<"HI">>]>>, s)} })

parse_collection_category(s) ==
    alt_tag_no_case(<<[t |-> <<"r", "t">>, v |-> "RealTime"],
                      [t |-> <<"t", "1">>, v |-> "Tier1"],
                      [t |-> <<"t", "2">>, v |-> "Tier2"],
                      [t |-> <<"a", "1">>, v |-> "AlbersTier1"],
                      [t |-> <<"a", "2">>, v |-> "AlbersTier2"]>>, s)

\* map(opt(tuple((consume_product_sep, parse_collection_category))), |cc| cc.map(|cc| cc.1))
opt_collection_category(s) ==
    Only({ IF sep.tag # "Ok" THEN Ok(s, None) ELSE
    Only({ IF cc.tag # "Ok" THEN Ok(s, None) ELSE Ok(cc.rest, Some(cc.val))
         : cc \in {parse_collection_category(sep.rest)} })
         : sep \in {landsat_consume_product_sep(s)} })

landsat_parse_product(s) ==
    Only({ IF s_sensor.tag # "Ok" THEN s_sensor ELSE
    Only({ IF any.tag # "Ok" THEN any ELSE
    Only({ IF zero.tag # "Ok" THEN zero ELSE
    Only({ IF mission.tag # "Ok" THEN mission ELSE
    Only({ IF sensor.tag # "Ok" THEN sensor ELSE
    Only({ IF sep1.tag # "Ok" THEN sep1 ELSE
    Only({ IF processing_level.tag # "Ok" THEN processing_level ELSE
    Only({ IF sep2.tag # "Ok" THEN sep2 ELSE
    Only({ IF wrs_path.tag # "Ok" THEN wrs_path ELSE
    Only({ IF wrs_row.tag # "Ok" THEN wrs_row ELSE
    Only({ IF sep3.tag # "Ok" THEN sep3 ELSE
    Only({ IF acquire_date.tag # "Ok" THEN acquire_date ELSE
    Only({ IF sep4.tag # "Ok" THEN sep4 ELSE
    Only({ IF processing_date.tag # "Ok" THEN processing_date ELSE
    Only({ IF sep5.tag # "Ok" THEN sep5 ELSE
    Only({ IF collection_number.tag # "Ok" THEN collection_number ELSE
    Only({ IF collection_category.tag # "Ok" THEN collection_category ELSE
    Only({ IF mission_id.tag # "Ok" THEN mission_id ELSE
           Ok(collection_category.rest,
              [sensor |-> sensor.val,
               mission |-> mission_id.val,
               processing_level |-> processing_level.val,
               wrs_path |-> wrs_path.val,
               wrs_row |-> wrs_row.val,
               acquire_date |-> acquire_date.val,
               processing_date |-> processing_date.val,
               collection_number |-> collection_number.val,
               collection_category |-> collection_category.val])
         : mission_id \in {MissionId_from(mission.val)} })
         : collection_category \in {opt_collection_category(collection_number.rest)} })
         : collection_number \in {take_n_digits(2, "u8", sep5.rest)} })
         : sep5 \in {landsat_consume_product_sep(processing_date.rest)} })
         : processing_date \in {parse_simple_date(sep4.rest)} })
         : sep4 \in {landsat_consume_product_sep(acquire_date.rest)} })
         : acquire_date \in {parse_simple_date(sep3.rest)} })
         : sep3 \in {landsat_consume_product_sep(wrs_row.rest)} })
         : wrs_row \in {take_n_digits(3, "u32", wrs_path.rest)} })
         : wrs_path \in {take_n_digits(3, "u32", sep2.rest)} })
         : sep2 \in {landsat_consume_product_sep(processing_level.rest)} })
         : processing_level \in {parse_processing_level(sep1.rest)} })
         : sep1 \in {landsat_consume_product_sep(mission.rest)} })
         : sensor \in {parse_sensor(s_sensor.rest, mission.val)} })
         : mission \in {take_n_digits_in_range(1, "u8", 1, 9, zero.rest)} })
         : zero \in {tag(<<"0">>, any.rest)} })
         : any \in {take(1, s_sensor.rest)} })
         : s_sensor \in {tag_no_case(<<"L">>, s)} })

--------------------------------------------------------------------------
(* identifiers/sentinel3.rs                                                *)

s3_consume_product_sep(s) == char("_", s)

s3_parse_mission_id(s) ==
    alt_tag_no_case(<<[t |-> <<"s", "3", "a">>, v |-> "S3A"],
                      [t |-> <<"s", "3", "b">>, v |-> "S3B"],
                      [t |-> <<"s", "3", "_">>, v |-> "S3AB"]>>, s)

parse_data_source(s) ==
    alt_tag_no_case(<<[t |-> <<"o", "l">>, v |-> "OLCI"],
                      [t |-> <<"s", "l">>, v |-> "SLSTR"],
                      [t |-> <<"s", "y">>, v |-> "Synergy"],
                      [t |-> <<"s", "r">>, v |-> "SRAL"],
                      [t |-> <<"d", "o">>, v |-> "DORIS"],
                      [t |-> <<"m", "w">>, v |-> "MWR"],
                      [t |-> <<"g", "n">>, v |-> "GNSS"]>>, s)

\* the tags of parse_data_type, in the order of its alt
DataTypeTags ==
    <<
        [t |-> <<"A", "E", "R", "_", "A", "X">>, v |-> <<"AER_AX">>],
        [t |-> <<"A", "O", "D", "_", "_", "_">>, v |-> <<"AOD">>],
        [t |-> <<"A", "T", "P", "_", "A", "X">>, v |-> <<"ATP_AX">>],
        [t |-> <<"C", "A", "L", "_", "_", "_">>, v |-> <<"CAL">>],
        [t |-> <<"C", "R", "0", "_", "_", "_">>, v |-> <<"CR0">>],
        [t |-> <<"C", "R", "1", "_", "_", "_">>, v |-> <<"CR1">>],
        [t |-> <<"E", "F", "R", "_", "_", "_">>, v |-> <<"EFR">>],
        [t |-> <<"E", "F", "R", "_", "B", "W">>, v |-> <<"EFR_BW">>],
        [t |-> <<"E", "R", "R", "_", "_", "_">>, v |-> <<"ERR">>],
        [t |-> <<"E", "R", "R", "_", "B", "W">>, v |-> <<"ERR_BW">>],
        [t |-> <<"F", "R", "P", "_", "_", "_">>, v |-> <<"FRP">>],
        [t |-> <<"I", "N", "S", "_", "A", "X">>, v |-> <<"INS_AX">>],
        [t |-> <<"L", "A", "N", "_", "_", "_">>, v |-> <<"LAN">>],
        [t |-> <<"L", "A", "P", "_", "A", "X">>, v |-> <<"LAP_AX">>],
        [t |-> <<"L", "F", "R", "_", "_", "_">>, v |-> <<"LFR">>],
        [t |-> <<"L", "F", "R", "_", "B", "W">>, v |-> <<"LFR_BW">>],
        [t |-> <<"L", "R", "R", "_", "_", "_">>, v |-> <<"LRR">>],
        [t |-> <<"L", "R", "R", "_", "B", "W">>, v |-> <<"LRR_BW">>],
        [t |-> <<"L", "S", "T", "_", "_", "_">>, v |-> <<"LST">>],
        [t |-> <<"L", "S", "T", "_", "B", "W">>, v |-> <<"LST_BW">>],
        [t |-> <<"L", "V", "I", "_", "A", "X">>, v |-> <<"LVI_AX">>],
        [t |-> <<"M", "S", "I", "R", "_", "_">>, v |-> <<"MSIR">>],
        [t |-> <<"R", "A", "C", "_", "_", "_">>, v |-> <<"RAC">>],
        [t |-> <<"R", "B", "T", "_", "_", "_">>, v |-> <<"RBT">>],
        [t |-> <<"R", "B", "T", "_", "B", "W">>, v |-> <<"RBT_BW">>],
        [t |-> <<"S", "L", "T", "_", "_", "_">>, v |-> <<"SLT">>],
        [t |-> <<"S", "P", "C", "_", "_", "_">>, v |-> <<"SPC">>],
        [t |-> <<"S", "R", "A", "_", "_", "_">>, v |-> <<"SRA">>],
        [t |-> <<"S", "Y", "N", "_", "_", "_">>, v |-> <<"SYN">>],
        [t |-> <<"S", "Y", "N", "_", "B", "W">>, v |-> <<"SYN_BW">>],
        [t |-> <<"V", "1", "0", "_", "_", "_">>, v |-> <<"V10">>],
        [t |-> <<"V", "1", "0", "_", "B", "W">>, v |-> <<"V10_BW">>],
        [t |-> <<"V", "G", "1", "_", "_", "_">>, v |-> <<"VG1">>],
        [t |-> <<"V", "G", "1", "_", "B", "W">>, v |-> <<"VG1_BW">>],
        [t |-> <<"V", "G", "P", "_", "_", "_">>, v |-> <<"VGP">>],
        [t |-> <<"V", "G", "P", "_", "B", "W">>, v |-> <<"VGP_BW">>],
        [t |-> <<"W", "A", "T", "_", "_", "_">>, v |-> <<"WAT">>],
        [t |-> <<"W", "C", "T", "_", "_", "_">>, v |-> <<"WCT">>],
        [t |-> <<"W", "F", "R", "_", "_", "_">>, v |-> <<"WFR">>],
        [t |-> <<"W", "F", "R", "_", "B", "W">>, v |-> <<"WFR_BW">>],
        [t |-> <<"W", "R", "R", "_", "_", "_">>, v |-> <<"WRR">>],
        [t |-> <<"W", "R", "R", "_", "B", "W">>, v |-> <<"WRR_BW">>],
        [t |-> <<"W", "S", "T", "_", "_", "_">>, v |-> <<"WST">>],
        [t |-> <<"W", "S", "T", "_", "B", "W">>, v |-> <<"WST_BW">>]
    >>

RECURSIVE trim_end_matches(_, _)
\* str::trim_end_matches(c)
trim_end_matches(v, c) ==
    IF v # <<>> /\ v[Len(v)] = c THEN trim_end_matches(Take(v, Len(v) - 1), c) ELSE v

parse_data_type(s) ==
    Only({ IF known.tag = "Ok" THEN known ELSE
    Only({ IF v.tag # "Ok" THEN v
           ELSE Ok(v.rest, <<"Other", to_uppercase(trim_end_matches(v.val, "_"))>>)
         : v \in {take(6, s)} })
         : known \in {alt_tag_no_case(DataTypeTags, s)} })

\* the fields the Stripe and the Frame branch of parse_instance share:
\* take_n_digits::<u32>(4), sep, take_n_digits::<u32>(3), sep, take_n_digits::<u32>(3), sep
instance_numbers(s) ==
    Only({ IF duration.tag # "Ok" THEN duration ELSE
    Only({ IF sep1.tag # "Ok" THEN sep1 ELSE
    Only({ IF cycle_number.tag # "Ok" THEN cycle_number ELSE
    Only({ IF sep2.tag # "Ok" THEN sep2 ELSE
    Only({ IF relative_order_number.tag # "Ok" THEN relative_order_number ELSE
    Only({ IF sep3.tag # "Ok" THEN sep3 ELSE
           Ok(sep3.rest, [duration |-> duration.val,
                          cycle_number |-> cycle_number.val,
                          relative_order_number |-> relative_order_number.val])
         : sep3 \in {s3_consume_product_sep(relative_order_number.rest)} })
         : relative_order_number \in {take_n_digits(3, "u32", sep2.rest)} })
         : sep2 \in {s3_consume_product_sep(cycle_number.rest)} })
         : cycle_number \in {take_n_digits(3, "u32", sep1.rest)} })
         : sep1 \in {s3_consume_product_sep(duration.rest)} })
         : duration \in {take_n_digits(4, "u32", s)} })

parse_instance(s) ==
    Only({ IF aux.tag = "Ok" THEN Ok(aux.rest, [kind |-> "Aux"]) ELSE
    Only({ IF global.tag = "Ok" THEN Ok(global.rest, [kind |-> "GlobalTile"]) ELSE
    Only({
    Only({ IF stripe.tag = "Ok" THEN Ok(stripe.rest, [kind |-> "Stripe"] @@ numbers.val) ELSE
    Only({ IF frame.tag = "Ok"
           THEN Ok(frame.rest, [kind |-> "Frame", frame_along_track_coordinate |-> frame.val]
                                  @@ numbers.val)
           ELSE
    Only({ IF ti.tag = "Ok"
           THEN Ok(ti.rest, [kind |-> "Tile", tile_identifier |-> to_uppercase(ti.val)])
           ELSE ti
         : ti \in {take_alphanumeric_n(17, s)} })
         : frame \in {IF numbers.tag # "Ok" THEN numbers ELSE take_n_digits(4, "u32", numbers.rest)} })
         : stripe \in {IF numbers.tag # "Ok" THEN numbers ELSE take_while_m_n(4, 4, {"_"}, numbers.rest)} })
         : numbers \in {instance_numbers(s)} })
         : global \in {tag_no_case(<<"G", "L", "O", "B", "A", "L", "_", "_", "_", "_", "_", "_", "_", "_", "_", "_", "_">>, s)} })
         : aux \in {take_while_m_n(17, 17, {"_"}, s)} })

parse_platform(s) ==
    Only({ IF known.tag = "Ok" THEN known ELSE
    Only({ IF sep.tag = "Ok" THEN Ok(sep.rest, None) ELSE sep
         : sep \in {s3_consume_product_sep(s)} })
         : known \in {alt_tag_no_case(<<[t |-> <<"o">>, v |-> Some("Operational")],
                                        [t |-> <<"f">>, v |-> Some("Reference")],
                                        [t |-> <<"d">>, v |-> Some("Development")],
                                        [t |-> <<"r">>, v |-> Some("Reprocessing")]>>, s)} })

parse_timeliness(s) ==
    Only({ IF known.tag = "Ok" THEN known ELSE
    Only({ IF sep1.tag # "Ok" THEN sep1 ELSE
    Only({ IF sep2.tag # "Ok" THEN sep2 ELSE Ok(sep2.rest, None)
         : sep2 \in {s3_consume_product_sep(sep1.rest)} })
         : sep1 \in {s3_consume_product_sep(s)} })
         : known \in {alt_tag_no_case(<<[t |-> <<"n", "r">>, v |-> Some("NRT")],
                                        [t |-> <<"s", "t">>, v |-> Some("STC")],
                                        [t |-> <<"n", "t">>, v |-> Some("NTC")]>>, s)} })

\* alt((map(take_n_digits::<u8>(1), Some), map(consume_product_sep, |_| None)))
s3_processing_level(s) ==
    Only({ IF digit.tag = "Ok" THEN Ok(digit.rest, Some(digit.val))
           ELSE IF digit.tag = "Panic" THEN digit ELSE
    Only({ IF sep.tag = "Ok" THEN Ok(sep.rest, None) ELSE sep
         : sep \in {s3_consume_product_sep(s)} })
         : digit \in {take_n_digits(1, "u8", s)} })

\* alt((map(take_while_m_n(1, 3, is_char_alphanumeric), ..), map(take_while_m_n(3, 3, '_'), ..)))
collection_or_usage(s) ==
    Only({ IF d.tag = "Ok" THEN Ok(d.rest, Some(to_uppercase(d.val))) ELSE
    Only({ IF none.tag = "Ok" THEN Ok(none.rest, None) ELSE none
         : none \in {take_while_m_n(3, 3, {"_"}, s)} })
         : d \in {take_while_m_n(1, 3, is_char_alphanumeric, s)} })

s3_parse_product(s) ==
    Only({ IF mission_id.tag # "Ok" THEN mission_id ELSE
    Only({ IF sep1.tag # "Ok" THEN sep1 ELSE
    Only({ IF data_source.tag # "Ok" THEN data_source ELSE
    Only({ IF sep2.tag # "Ok" THEN sep2 ELSE
    Only({ IF processing_level.tag # "Ok" THEN processing_level ELSE
    Only({ IF sep3.tag # "Ok" THEN sep3 ELSE
    Only({ IF data_type.tag # "Ok" THEN data_type ELSE
    Only({ IF sep4.tag # "Ok" THEN sep4 ELSE
    Only({ IF start_datetime.tag # "Ok" THEN start_datetime ELSE
    Only({ IF sep5.tag # "Ok" THEN sep5 ELSE
    Only({ IF stop_datetime.tag # "Ok" THEN stop_datetime ELSE
    Only({ IF sep6.tag # "Ok" THEN sep6 ELSE
    Only({ IF product_creation_datetime.tag # "Ok" THEN product_creation_datetime ELSE
    Only({ IF sep7.tag # "Ok" THEN sep7 ELSE
    Only({ IF instance_id.tag # "Ok" THEN instance_id ELSE
    Only({ IF sep8.tag # "Ok" THEN sep8 ELSE
    Only({ IF centre_generating_file.tag # "Ok" THEN centre_generating_file ELSE
    Only({ IF sep9.tag # "Ok" THEN sep9 ELSE
    Only({ IF platform.tag # "Ok" THEN platform ELSE
    Only({ IF sep10.tag # "Ok" THEN sep10 ELSE
    Only({ IF timeliness.tag # "Ok" THEN timeliness ELSE
    Only({ IF sep11.tag # "Ok" THEN sep11 ELSE
    Only({ IF usage.tag # "Ok" THEN usage ELSE
           Ok(usage.rest,
              [mission_id |-> mission_id.val,
               data_source |-> data_source.val,
               processing_level |-> processing_level.val,
               data_type |-> data_type.val,
               start_datetime |-> start_datetime.val,
               stop_datetime |-> stop_datetime.val,
               product_creation_datetime |-> product_creation_datetime.val,
               instance_id |-> instance_id.val,
               centre_generating_file |-> to_uppercase(centre_generating_file.val),
               platform |-> platform.val,
               timeliness |-> timeliness.val,
               collection_or_usage |-> usage.val])
         : usage \in {collection_or_usage(sep11.rest)} })
         : sep11 \in {s3_consume_product_sep(timeliness.rest)} })
         : timeliness \in {parse_timeliness(sep10.rest)} })
         : sep10 \in {s3_consume_product_sep(platform.rest)} })
         : platform \in {parse_platform(sep9.rest)} })
         : sep9 \in {s3_consume_product_sep(centre_generating_file.rest)} })
         : centre_generating_file \in {take_alphanumeric_n(3, sep8.rest)} })
         : sep8 \in {s3_consume_product_sep(instance_id.rest)} })
         : instance_id \in {parse_instance(sep7.rest)} })
         : sep7 \in {s3_consume_product_sep(product_creation_datetime.rest)} })
         : product_creation_datetime \in {parse_esa_timestamp(sep6.rest)} })
         : sep6 \in {s3_consume_product_sep(stop_datetime.rest)} })
         : stop_datetime \in {parse_esa_timestamp(sep5.rest)} })
         : sep5 \in {s3_consume_product_sep(start_datetime.rest)} })
         : start_datetime \in {parse_esa_timestamp(sep4.rest)} })
         : sep4 \in {s3_consume_product_sep(data_type.rest)} })
         : data_type \in {parse_data_type(sep3.rest)} })
         : sep3 \in {s3_consume_product_sep(processing_level.rest)} })
         : processing_level \in {s3_processing_level(sep2.rest)} })
         : sep2 \in {s3_consume_product_sep(data_source.rest)} })
         : data_source \in {parse_data_source(sep1.rest)} })
         : sep1 \in {s3_consume_product_sep(mission_id.rest)} })
         : mission_id \in {s3_parse_mission_id(s)} })

--------------------------------------------------------------------------
(* Inputs shared by the specifications                                     *)

\* bound: the longest text that follows the part of the input a parser is given
MaxSuffixLen == 1

\* what follows a field in the identifiers: a digit, a separator
SuffixChars == {"7", "_"}

RECURSIVE StringsUpTo(_, _)
\* the strings over chars of length at most n
StringsUpTo(chars, n) ==
    IF n = 0 THEN {<<>>}
    ELSE LET shorter == StringsUpTo(chars, n - 1)
         IN  shorter \cup {<<c>> \o t : c \in chars, t \in {u \in shorter : Len(u) = n - 1}}

Suffixes == StringsUpTo(SuffixChars, MaxSuffixLen)

RECURSIVE Pow10(_)
Pow10(n) == IF n = 0 THEN 1 ELSE 10 * Pow10(n - 1)

RECURSIVE NumDigits(_)
NumDigits(v) == IF v < 10 THEN 1 ELSE 1 + NumDigits(v \div 10)

\* format!("{:0w$}", v): v in decimal, padded with zeros on the left to w characters
Format(v, w) ==
    LET n == IF NumDigits(v) > w THEN NumDigits(v) ELSE w
    IN  [k \in 1..n |-> Digits[((v \div Pow10(n - k)) % 10) + 1]]

\* the calls the unwinding stack leaves no later instruction for
Finished == {"returned", "panicked"}

Finish(r) == IF r.tag = "Panic" THEN "panicked" ELSE "returned"

NotEnoughData(p) == [kind |-> "NotEnoughData", pos |-> p]

FailedAtPosition(p) == [kind |-> "FailedAtPosition", pos |-> p]

\* the variables of Identifier::from_str, while another function is called
NoDispatch ==
    /\ closest_e = NotEnoughData(0)
    /\ closest_by = 0
    /\ attempts = <<>>
    /\ s1 = <<>>

--------------------------------------------------------------------------
(* The fixed-width digit runs: every (width, integer type, range) the      *)
(* program instantiates take_n_digits and take_n_digits_in_range with      *)

DigitSite(fn, n, T, range, site) == [fn |-> fn, n |-> n, T |-> T, range |-> range, site |-> site]

TakeNDigitsSites ==
    { DigitSite("take_n_digits", 4, "u32", <<>>, "common_parsers::date_year"),
      DigitSite("take_n_digits", 3, "u32", <<>>, "landsat::parse_scene_id wrs_path"),
      DigitSite("take_n_digits", 3, "i64", <<>>, "landsat::parse_julian_date"),
      DigitSite("take_n_digits", 2, "u8", <<>>, "landsat::parse_scene_id archive_version_number"),
      DigitSite("take_n_digits", 1, "u8", <<>>, "sentinel3::parse_product processing_level"),
      DigitSite("take_n_digits", 2, "u32", <<>>,
                "common_parsers::take_n_digits_in_range for date_month"),
      DigitSite("take_n_digits", 3, "u8", <<>>,
                "common_parsers::take_n_digits_in_range for sentinel2 relative_orbit_number") }

TakeNDigitsInRangeSites ==
    { DigitSite("take_n_digits_in_range", 2, "u32", <<1, 12>>, "common_parsers::date_month"),
      DigitSite("take_n_digits_in_range", 2, "u32", <<1, 31>>, "common_parsers::date_day"),
      DigitSite("take_n_digits_in_range", 2, "u32", <<0, 24>>, "common_parsers::time_hour"),
      DigitSite("take_n_digits_in_range", 2, "u32", <<0, 59>>, "common_parsers::time_minute"),
      DigitSite("take_n_digits_in_range", 2, "u32", <<0, 60>>, "common_parsers::time_second"),
      DigitSite("take_n_digits_in_range", 1, "u8", <<1, 9>>, "landsat::parse_scene_id mission"),
      DigitSite("take_n_digits_in_range", 2, "u8", <<0, 99>>,
                "sentinel2::parse_processing_baseline_number"),
      DigitSite("take_n_digits_in_range", 3, "u8", <<1, 143>>,
                "sentinel2::parse_relative_orbit_number") }

\* fields that are not n digits: too short, or a character that is no digit
MalformedFields(n) ==
    {Take([k \in 1..n |-> "1"], m) \o bad :
        m \in 0..(n - 1), bad \in {<<>>, <<"x">>, <<"_", "1">>, <<NonAsciiLetter>>}}

\* a call of a digit-run parser: on the n-digit rendering of v followed by a suffix
\* (v >= 0), or on a malformed field (v = -1)
InitDigits ==
    /\ \E site \in TakeNDigitsSites \cup TakeNDigitsInRangeSites :
         \/ \E v \in 0..(Pow10(site.n) - 1), suffix \in Suffixes :
              /\ call = site @@ [v |-> v, suffix |-> suffix]
              /\ input = Format(v, site.n) \o suffix
         \/ \E field \in MalformedFields(site.n) :
              /\ call = site @@ [v |-> -1, suffix |-> <<>>]
              /\ input = field
    /\ pc = "start"
    /\ result = "none"
    /\ NoDispatch

TakeNDigits ==
    /\ pc = "start"
    /\ call.fn = "take_n_digits"
    /\ result' = take_n_digits(call.n, call.T, input)
    /\ pc' = Finish(result')
    /\ UNCHANGED <<call, input, closest_e, closest_by, attempts, s1>>

TakeNDigitsInRange ==
    /\ pc = "start"
    /\ call.fn = "take_n_digits_in_range"
    /\ result' = take_n_digits_in_range(call.n, call.T, call.range[1], call.range[2], input)
    /\ pc' = Finish(result')
    /\ UNCHANGED <<call, input, closest_e, closest_by, attempts, s1>>

NextDigits == TakeNDigits \/ TakeNDigitsInRange

SpecDigits == InitDigits /\ [][NextDigits]_vars

--------------------------------------------------------------------------
(* Calls of the temporal parsers                                           *)

\* an optional sign, as date_year reads it
Signs == {<<>>, <<"+">>, <<"-">>}

SignValue(sg) == IF sg = <<"-">> THEN -1 ELSE 1

\* bound: the largest value of a 2-digit month field tried (12 is the last month)
MaxMonthField == 13

\* bound: the largest value of a 2-digit day field tried (31 is the last day)
MaxDayField == 32

\* years around the leap-year rules, and the ends of the 4-digit range
SampleYears == {0, 1, 4, 100, 400, 1900, 2000, 2013, 2019, 2020, 2021, 2023, 9999}

\* inputs a date parser rejects before it has read a date
MalformedDates ==
    {<<>>, <<"+">>, <<"2", "0", "2">>, <<"-", "2", "0", "2", "0">>, <<"2", "0", "2", "0", "0">>,
     <<"2", "0", "2", "0", "0", "2", "1">>, <<"x", "0", "2", "0", "0", "2", "1", "5">>,
     <<"2", "0", "2", "0", "_", "0", "2", "1", "5">>, <<"+", "-", "2", "0", "2", "0", "0", "1", "0", "1">>}

InitDate ==
    /\ \/ \E sg \in Signs, y \in SampleYears, m \in 0..MaxMonthField, d \in 0..MaxDayField,
            suffix \in Suffixes :
              /\ call = [fn |-> "parse_simple_date", wellformed |-> TRUE, sign |-> sg,
                         year |-> y, month |-> m, day |-> d, suffix |-> suffix]
              /\ input = sg \o Format(y, 4) \o Format(m, 2) \o Format(d, 2) \o suffix
       \/ \E bad \in MalformedDates :
              /\ call = [fn |-> "parse_simple_date", wellformed |-> FALSE]
              /\ input = bad
    /\ pc = "start"
    /\ result = "none"
    /\ NoDispatch

ParseSimpleDate ==
    /\ pc = "start"
    /\ call.fn = "parse_simple_date"
    /\ result' = parse_simple_date(input)
    /\ pc' = Finish(result')
    /\ UNCHANGED <<call, input, closest_e, closest_by, attempts, s1>>

NextDate == ParseSimpleDate

SpecDate == InitDate /\ [][NextDate]_vars

\* the separators parse_esa_timestamp is given between date and time
Separators == {<<>>, <<"T">>, <<"t">>}

TimestampYears == {2019, 2020}

TimestampMonths == {0, 1, 2, 4, 12, 13}

TimestampDays == {0, 1, 7, 28, 29, 30, 31, 32}

TimestampHours == {0, 5, 23, 24, 25}

TimestampMinutes == {0, 18, 59, 60}

TimestampSeconds == {0, 36, 59, 60, 61}

\* the 8-digit date and the 6-digit time of a call
DateField(c) == Format(c.year, 4) \o Format(c.month, 2) \o Format(c.day, 2)

TimeField(c) == Format(c.hour, 2) \o Format(c.minute, 2) \o Format(c.second, 2)

TimestampDates ==
    [year : TimestampYears, month : TimestampMonths, day : TimestampDays]

TimestampTimes ==
    [hour : TimestampHours, minute : TimestampMinutes, second : TimestampSeconds]

InitTimestamp ==
    /\ \E date \in TimestampDates, time \in TimestampTimes, sep \in Separators,
          suffix \in Suffixes :
         /\ call = [fn |-> "parse_esa_timestamp", sep |-> sep, suffix |-> suffix] @@ date @@ time
         /\ input = DateField(date) \o sep \o TimeField(time) \o suffix
    /\ pc = "start"
    /\ result = "none"
    /\ NoDispatch

ParseEsaTimestamp ==
    /\ pc = "start"
    /\ call.fn = "parse_esa_timestamp"
    /\ result' = parse_esa_timestamp(input)
    /\ pc' = Finish(result')
    /\ UNCHANGED <<call, input, closest_e, closest_by, attempts, s1>>

NextTimestamp == ParseEsaTimestamp

SpecTimestamp == InitTimestamp /\ [][NextTimestamp]_vars

InitJulian ==
    /\ \/ \E sg \in Signs, y \in SampleYears, d \in 0..(Pow10(3) - 1), suffix \in Suffixes :
              /\ call = [fn |-> "parse_julian_date", wellformed |-> TRUE, sign |-> sg,
                         year |-> y, day_of_year |-> d, suffix |-> suffix]
              /\ input = sg \o Format(y, 4) \o Format(d, 3) \o suffix
       \/ \E bad \in MalformedDates :
              /\ call = [fn |-> "parse_julian_date", wellformed |-> FALSE]
              /\ input = bad
    /\ pc = "start"
    /\ result = "none"
    /\ NoDispatch

ParseJulianDate ==
    /\ pc = "start"
    /\ call.fn = "parse_julian_date"
    /\ result' = parse_julian_date(input)
    /\ pc' = Finish(result')
    /\ UNCHANGED <<call, input, closest_e, closest_by, attempts, s1>>

NextJulian == ParseJulianDate

SpecJulian == InitJulian /\ [][NextJulian]_vars

--------------------------------------------------------------------------
(* from_str.rs: map_parser and the dispatcher Identifier::from_str         *)

\* Err(nom::Err::Incomplete(needed)); needed = 0 stands for Needed::Unknown,
\* needed > 0 for Needed::Size(needed)
Incomplete(needed) == [tag |-> "Incomplete", needed |-> needed]

\* Result::Err of map_parser and of from_str
Err(e) == [tag |-> "Err", err |-> e]

error_pos(e) == e.pos

\* map_parser turning a success that leaves input unconsumed into an error
map_parser_all_consuming(r, s) ==
    IF r.tag = "Ok"
    THEN (IF r.rest = <<>> THEN [tag |-> "Ok", val |-> r.val]
          ELSE Err(FailedAtPosition(len(s) - len(r.rest))))
    ELSE IF r.tag = "Incomplete" THEN Err(NotEnoughData(r.needed))
    ELSE IF r.tag \in {"Error", "Failure"} THEN Err(FailedAtPosition(len(s) - len(r.input)))
    ELSE r

\* map_parser reporting the length of the remaining input as the offset
map_parser_remaining_length(r, s) ==
    IF r.tag = "Ok" THEN [tag |-> "Ok", val |-> r.val]
    ELSE IF r.tag = "Incomplete" THEN Err(NotEnoughData(r.needed))
    ELSE IF r.tag \in {"Error", "Failure"} THEN Err(FailedAtPosition(len(r.input)))
    ELSE r

\* map_parser(p)(s), r being what p(s) evaluates to
map_parser(r, s) ==
    IF r.tag = "Ok" THEN [tag |-> "Ok", val |-> r.val]
    ELSE IF r.tag = "Incomplete" THEN Err(NotEnoughData(r.needed))
    ELSE IF r.tag \in {"Error", "Failure"} THEN Err(FailedAtPosition(len(s) - len(r.input)))
    ELSE r

\* identifiers::sentinel1::parse_product: what the grammar answers on the input
\* of the call, drawn when the call starts
sentinel1_parse_product(s) == s1.product

\* identifiers::sentinel1::parse_dataset
sentinel1_parse_dataset(s) == s1.dataset

\* the expansions of try_parser! with the Sentinel-1 dataset grammar moved to the front
RegistryDatasetFirst ==
    <<"sentinel1::parse_dataset",
      "sentinel1::parse_product",
      "sentinel2::parse_product",
      "sentinel3::parse_product",
      "landsat::parse_product",
      "landsat::parse_scene_id">>

\* the parsers try_parser! is expanded with, from the first to the last
Registry ==
    <<"sentinel1::parse_product",
      "sentinel2::parse_product",
      "sentinel3::parse_product",
      "landsat::parse_product",
      "landsat::parse_scene_id",
      "sentinel1::parse_dataset">>

\* $p(s) for the parser named p
run_parser(p, s) ==
    CASE p = "sentinel1::parse_product" -> sentinel1_parse_product(s)
      [] p = "sentinel2::parse_product" -> s2_parse_product(s)
      [] p = "sentinel3::parse_product" -> s3_parse_product(s)
      [] p = "landsat::parse_product" -> landsat_parse_product(s)
      [] p = "landsat::parse_scene_id" -> parse_scene_id(s)
      [] p = "sentinel1::parse_dataset" -> sentinel1_parse_dataset(s)

\* v.into(): impl From<..> for Identifier, chosen by the type the parser p returns
Identifier_from(p, v) ==
    [variant |-> CASE p = "sentinel1::parse_product" -> "Sentinel1Product"
                   [] p = "sentinel2::parse_product" -> "Sentinel2Product"
                   [] p = "sentinel3::parse_product" -> "Sentinel3Product"
                   [] p = "landsat::parse_product" -> "LandsatProduct"
                   [] p = "landsat::parse_scene_id" -> "LandsatSceneId"
                   [] p = "sentinel1::parse_dataset" -> "Sentinel1Dataset",
     record |-> v]

\* try_parser! keeping the error with the smaller offset
is_closer_when_smaller(e, closest) == error_pos(e) < error_pos(closest)

\* the test of try_parser! that makes e the running best error
is_closer(e, closest) == error_pos(e) > error_pos(closest)

\* where the call goes on after the k-th try_parser! saw an error
after_error(k) == IF k < Len(Registry) THEN Registry[k + 1] ELSE "returned"

\* the k-th try_parser!; the last one falls through to Err(closest_e)
try_parser(k) ==
    /\ call.fn = "Identifier::from_str"
    /\ pc = Registry[k]
    /\ \E r \in {map_parser(run_parser(Registry[k], input), input)} :
         /\ attempts' = Append(attempts, [parser |-> Registry[k], input |-> input, outcome |-> r])
         /\ IF r.tag = "Ok"
            THEN /\ result' = [tag |-> "Ok", val |-> Identifier_from(Registry[k], r.val)]
                 /\ pc' = "returned"
                 /\ UNCHANGED <<closest_e, closest_by>>
            ELSE IF r.tag = "Panic"
            THEN /\ result' = r
                 /\ pc' = "panicked"
                 /\ UNCHANGED <<closest_e, closest_by>>
            ELSE /\ closest_e' = IF is_closer(r.err, closest_e) THEN r.err ELSE closest_e
                 /\ closest_by' = IF is_closer(r.err, closest_e) THEN k ELSE closest_by
                 /\ pc' = after_error(k)
                 /\ result' = IF pc' = "returned" THEN Err(closest_e') ELSE result
    /\ UNCHANGED <<call, input, s1>>

TrySentinel1Product == try_parser(1)

TrySentinel2Product == try_parser(2)

TrySentinel3Product == try_parser(3)

TryLandsatProduct == try_parser(4)

TryLandsatSceneId == try_parser(5)

TrySentinel1Dataset == try_parser(6)

--------------------------------------------------------------------------
(* Calls of Identifier::from_str                                           *)

\* identifiers of the test data, one for each grammar of identifiers/
SampleIdentifiers ==
    { <<"S", "2", "A", "_", "M", "S", "I", "L", "1", "C", "_", "2", "0", "1", "7", "0", "1", "0", "5", "T", "0", "1", "3", "4", "4", "2", "_", "N", "0", "2", "0", "4", "_", "R", "0", "3", "1", "_", "T", "5", "3", "N", "M", "J", "_", "2", "0", "1", "7", "0", "1", "0", "5", "T", "0", "1", "3", "4", "4", "3">>,
      <<"S", "3", "A", "_", "O", "L", "_", "1", "_", "E", "F", "R", "_", "_", "_", "_", "2", "0", "2", "2", "0", "8", "0", "1", "T", "2", "1", "0", "1", "4", "3", "_", "2", "0", "2", "2", "0", "8", "0", "1", "T", "2", "1", "0", "4", "4", "3", "_", "2", "0", "2", "2", "0", "8", "0", "3", "T", "0", "2", "3", "3", "5", "7", "_", "0", "1", "7", "9", "_", "0", "8", "8", "_", "1", "5", "7", "_", "1", "8", "0", "0", "_", "M", "A", "R", "_", "O", "_", "N", "T", "_", "0", "0", "2">>,
      <<"L", "C", "0", "8", "_", "L", "2", "S", "P", "_", "0", "0", "8", "0", "0", "8", "_", "2", "0", "1", "8", "0", "5", "2", "0", "_", "2", "0", "2", "0", "0", "9", "0", "1", "_", "0", "2", "_", "T", "2">>,
      <<"L", "C", "0", "8", "_", "L", "1", "G", "T", "_", "0", "2", "9", "0", "3", "0", "_", "2", "0", "1", "5", "1", "2", "0", "9", "_", "2", "0", "1", "6", "0", "1", "3", "1", "_", "0", "1", "_", "R", "T">>,
      <<"L", "C", "8", "0", "3", "9", "0", "2", "2", "2", "0", "1", "3", "0", "7", "6", "E", "D", "C", "0", "0">> }

\* s with its k-th character replaced by c
Corrupt(s, k, c) == [i \in 1..Len(s) |-> IF i = k THEN c ELSE s[i]]

\* inputs no grammar is written for, and identifiers with a field out of range
OtherInputs ==
    { <<"g", "a", "r", "b", "a", "g", "e">>, <<"L", "C", "X">>, <<"S">>, <<"L">>,
      <<"S", "2", "A", "_", "M", "S", "I", "L", "1", "C", "_", "2", "0", "1", "7", "0", "1", "0", "5", "T", "0", "1", "3", "4", "4", "2", "_", "N", "0", "2", "0", "4", "_", "R", "0", "3", "1", "_", "T", "5", "3", "N", "M", "J", "_", "2", "0", "1", "7", "0", "1", "0", "5", "T", "0", "1", "3", "4", "4", "3", ".", "S", "A", "F", "E">>,
      <<"L", "C", "8", "0", "3", "9", "0", "2", "2", "2", "0", "1", "3", "0", "7", "6", "E", "D", "C", "0", "0", ".", "t", "a", "r", ".", "g", "z">>,
      <<"S", "2", "A", "_", "M", "S", "I", "L", "1", "C", "_", "2", "0", "1", "7", "0", "1", "0", "5", "T", "0", "1", "3", "4", "4", "2", "_", "N", "0", "2", "0", "4", "_", "R", "2", "5", "6", "_", "T", "5", "3", "N", "M", "J", "_", "2", "0", "1", "7", "0", "1", "0", "5", "T", "0", "1", "3", "4", "4", "3">>,
      <<"S", "2", "B", "_", "M", "S", "I", "L", "2", "A", "_", "2", "0", "2", "3", "0", "2", "3", "0", "T", "0", "1", "3", "4", "4", "2", "_", "N", "0", "2", "0", "4", "_", "R", "0", "3", "1", "_", "T", "5", "3", "N", "M", "J", "_", "2", "0", "1", "7", "0", "1", "0", "5", "T", "0", "1", "3", "4", "4", "3">>,
      <<"L", "C", "0", "8", "_", "L", "2", "S", "P", "_", "0", "0", "8", "0", "0", "8", "_", "2", "0", "1", "8", "0", "4", "3", "1", "_", "2", "0", "2", "0", "0", "9", "0", "1", "_", "0", "2", "_", "T", "2">>,
      <<"L", "C", "8", "0", "3", "9", "0", "2", "2", "2", "0", "1", "3", "0", "7", "6", "E", "D", "C", "9", "9">> }

\* the identifiers, what is left of them when they are cut off, and the identifiers
\* with one character that does not belong to any
DispatchInputs ==
    UNION {{Take(s, n) : n \in 0..Len(s)} \cup {Corrupt(s, k, "#") : k \in 1..Len(s)}
             : s \in SampleIdentifiers}
        \cup OtherInputs

\* bound: the furthest offset at which a Sentinel-1 grammar gives up
MaxS1Offset == 2

\* bound: the most characters a Sentinel-1 grammar reports as missing
MaxS1Needed == 1

\* what a Sentinel-1 grammar can answer on s: a record, an error at an offset,
\* or that the input ended too early
S1Outcomes(s, record) ==
    {Ok(<<>>, record)}
        \cup {Error(Drop(s, k)) : k \in 0..Min({MaxS1Offset, Len(s)})}
        \cup {Incomplete(n) : n \in 0..MaxS1Needed}

Init ==
    /\ call = [fn |-> "Identifier::from_str"]
    /\ input \in DispatchInputs
    /\ s1 \in [product : S1Outcomes(input, <<"sentinel1::Product">>),
               dataset : S1Outcomes(input, <<"sentinel1::Dataset">>)]
    /\ pc = Registry[1]
    /\ result = "none"
    /\ closest_e = NotEnoughData(0)
    /\ closest_by = 0
    /\ attempts = <<>>

Next ==
    \/ TrySentinel1Product
    \/ TrySentinel2Product
    \/ TrySentinel3Product
    \/ TryLandsatProduct
    \/ TryLandsatSceneId
    \/ TrySentinel1Dataset

Spec == Init /\ [][Next]_vars

--------------------------------------------------------------------------
(* Calls of parse_simple_time and of date_year                             *)

\* bound: the largest value of a 2-digit hour field tried (time_hour admits 0..=24)
MaxHourField == 25

\* bound: the largest value of a 2-digit second field tried (time_second admits 0..=60)
MaxSecondField == 61

\* minute fields around the range of time_minute, 0..=59
TimeMinutes == {0, 1, 30, 59, 60, 61, 99}

\* inputs parse_simple_time rejects before it has read three fields
MalformedTimes ==
    {<<>>, <<"1">>, <<"1", "2">>, <<"1", "2", "3">>, <<"1", "2", "3", "0", "4">>,
     <<"x", "2", "3", "0", "4", "5">>, <<"1", "2", ":", "3", "0", ":", "4", "5">>,
     <<"1", "2", "3", "0", "4", NonAsciiLetter>>}

InitTime ==
    /\ \/ \E h \in 0..MaxHourField, mn \in TimeMinutes, sec \in 0..MaxSecondField,
            suffix \in Suffixes :
              /\ call = [fn |-> "parse_simple_time", wellformed |-> TRUE,
                         hour |-> h, minute |-> mn, second |-> sec, suffix |-> suffix]
              /\ input = Format(h, 2) \o Format(mn, 2) \o Format(sec, 2) \o suffix
       \/ \E bad \in MalformedTimes :
              /\ call = [fn |-> "parse_simple_time", wellformed |-> FALSE]
              /\ input = bad
    /\ pc = "start"
    /\ result = "none"
    /\ NoDispatch

ParseSimpleTime ==
    /\ pc = "start"
    /\ call.fn = "parse_simple_time"
    /\ result' = parse_simple_time(input)
    /\ pc' = Finish(result')
    /\ UNCHANGED <<call, input, closest_e, closest_by, attempts, s1>>

NextTime == ParseSimpleTime

SpecTime == InitTime /\ [][NextTime]_vars

\* inputs of date_year in which the optional sign is not followed by 4 digits
MalformedYears ==
    {sg \o field : sg \in Signs, field \in MalformedFields(4)}
        \cup {<<"+", "-", "2", "0", "2", "0">>, <<"-", "+", "2", "0", "2", "0">>,
              <<"2", "0", "-", "2", "0">>}

InitYear ==
    /\ \/ \E sg \in Signs, y \in 0..(Pow10(4) - 1), suffix \in Suffixes :
              /\ call = [fn |-> "date_year", wellformed |-> TRUE, sign |-> sg,
                         year |-> y, suffix |-> suffix]
              /\ input = sg \o Format(y, 4) \o suffix
       \/ \E bad \in MalformedYears :
              /\ call = [fn |-> "date_year", wellformed |-> FALSE]
              /\ input = bad
    /\ pc = "start"
    /\ result = "none"
    /\ NoDispatch

DateYear ==
    /\ pc = "start"
    /\ call.fn = "date_year"
    /\ result' = date_year(input)
    /\ pc' = Finish(result')
    /\ UNCHANGED <<call, input, closest_e, closest_by, attempts, s1>>

NextYear == DateYear

SpecYear == InitYear /\ [][NextYear]_vars

--------------------------------------------------------------------------
(* Calls of the from_str that impl_from_str! gives each grammar of src     *)

\* impl_from_str!($parser_fn, $out): map_parser($parser_fn)(s).map(|v| v.into()),
\* v.into() being the identity on $out
impl_from_str(p, s) == map_parser(run_parser(p, s), s)

\* the parsers impl_from_str! is expanded with
FromStrParsers ==
    {"sentinel2::parse_product", "sentinel3::parse_product",
     "landsat::parse_product", "landsat::parse_scene_id"}

\* what follows an identifier: nothing, a file extension, more of an identifier
Trailings == {<<>>, <<".", "S", "A", "F", "E">>, <<".", "t", "a", "r", ".", "g", "z">>, <<"_", "T", "2">>, <<"7">>, <<"#">>}

\* identifiers without their optional last field
ShortIdentifiers ==
    { <<"L", "C", "0", "8", "_", "L", "2", "S", "P", "_", "0", "0", "8", "0", "0", "8", "_", "2", "0", "1", "8", "0", "5", "2", "0", "_", "2", "0", "2", "0", "0", "9", "0", "1", "_", "0", "2">>,
      <<"S", "3", "A", "_", "O", "L", "_", "1", "_", "E", "F", "R", "_", "_", "_", "_", "2", "0", "2", "2", "0", "8", "0", "1", "T", "2", "1", "0", "1", "4", "3", "_", "2", "0", "2", "2", "0", "8", "0", "1", "T", "2", "1", "0", "4", "4", "3", "_", "2", "0", "2", "2", "0", "8", "0", "3", "T", "0", "2", "3", "3", "5", "7", "_", "0", "1", "7", "9", "_", "0", "8", "8", "_", "1", "5", "7", "_", "1", "8", "0", "0", "_", "M", "A", "R", "_", "O", "_", "N", "T", "_", "0">> }

\* the inputs of Identifier::from_str, and the identifiers with one character that
\* is not ASCII
FromStrBases ==
    DispatchInputs \cup ShortIdentifiers
        \cup UNION {{Corrupt(s, k, NonAsciiLetter) : k \in 1..Len(s)} : s \in SampleIdentifiers}

\* Sentinel-2 identifiers with the relative orbit field v
RelativeOrbitInput(v) ==
    <<"S", "2", "A", "_", "M", "S", "I", "L", "1", "C", "_", "2", "0", "1", "7", "0", "1", "0", "5", "T", "0", "1", "3", "4", "4", "2", "_", "N", "0", "2", "0", "4", "_", "R">> \o Format(v, 3) \o <<"_", "T", "5", "3", "N", "M", "J", "_", "2", "0", "1", "7", "0", "1", "0", "5", "T", "0", "1", "3", "4", "4", "3">>

\* characters at the place of the sensor letter of a Landsat identifier
SensorChars == {"C", "c", "O", "o", "T", "t", "E", "e", "M", "m", "X", "#", "8", NonAsciiLetter}

\* characters at the place of the mission digit of a Landsat identifier
MissionChars == DigitSet \cup {"X", "_"}

\* what follows the mission digit of a Landsat scene id
SceneIdTails == {<<>>, <<"0", "3", "9", "0", "2", "2", "2", "0", "1", "3", "0", "7", "6", "E", "D", "C", "0", "0">>, <<"0", "3", "9", "0", "2", "2", "2", "0", "1", "3", "0", "7", "#", "E", "D", "C", "0", "0">>}

\* what follows the mission digit of a Landsat product identifier
ProductTails == {<<>>, <<"_", "L", "2", "S", "P", "_", "0", "0", "8", "0", "0", "8", "_", "2", "0", "1", "8", "0", "5", "2", "0", "_", "2", "0", "2", "0", "0", "9", "0", "1", "_", "0", "2", "_", "T", "2">>, <<"_", "L", "2", "S", "P", "_", "0", "0", "8", "0", "0", "#">>}

\* tokens at the place of the processing level of a Landsat product identifier
ProcessingLevelTokens ==
    { <<"L", "1", "T", "P">>, <<"L", "1", "G", "S">>, <<"L", "1", "G", "T">>, <<"L", "2", "S", "P">>, <<"L", "2", "S", "R">>, <<"C", "U">>, <<"A", "K">>, <<"H", "I">>,
      <<"l", "1", "t", "p">>, <<"l", "2", "S", "p">>, <<"c", "u">>, <<"A", "k">>, <<"h", "i">>,
      <<"L", "3">>, <<"X", "Y", "Z">>, <<"x", "1">>, <<"A">>, <<"L", "1">>, <<"L", "1", "T">>, <<"0">>, <<"T", "O", "A", "2">>,
      <<"L", "1", "T", "P", "X">>, <<"C", "U", "B">>, <<"A", "K", "4", "7">>, <<"H", "I", "G", "H">>, <<"l", "2", "s", "r", "1">> }

\* the Landsat product identifier with the processing-level token
ProcessingLevelInput(token) == <<"L", "E", "0", "7", "_">> \o token \o <<"_", "0", "2", "9", "0", "3", "0", "_", "2", "0", "1", "5", "1", "2", "0", "9", "_", "2", "0", "1", "6", "0", "1", "3", "1", "_", "0", "1", "_", "R", "T">>

\* s with the letter at k in lower case, every letter for k = 0
LowerAt(s, k) == [i \in 1..Len(s) |-> IF k = 0 \/ i = k THEN to_ascii_lowercase(s[i]) ELSE s[i]]

\* places of a Sentinel-2 identifier at which a character is replaced, 0 for none
CorruptPlaces == {0, 2, 20, 36, 41, 50}

InitFromStr ==
    /\ \/ \E p \in FromStrParsers, base \in FromStrBases, trailing \in Trailings :
            /\ call = [fn |-> "from_str", parser |-> p, family |-> "trailing",
                       base |-> base, trailing |-> trailing]
            /\ input = base \o trailing
       \/ \E v \in 0..(Pow10(3) - 1) :
            /\ call = [fn |-> "from_str", parser |-> "sentinel2::parse_product",
                       family |-> "relative_orbit", v |-> v]
            /\ input = RelativeOrbitInput(v)
       \/ \E c \in SensorChars, m \in MissionChars, tail \in SceneIdTails :
            /\ call = [fn |-> "from_str", parser |-> "landsat::parse_scene_id",
                       family |-> "sensor", sensor |-> c, mission |-> m]
            /\ input = <<"L", c, m>> \o tail
       \/ \E c \in SensorChars, z \in {"0", "X"}, m \in MissionChars, tail \in ProductTails :
            /\ call = [fn |-> "from_str", parser |-> "landsat::parse_product",
                       family |-> "sensor", sensor |-> c, mission |-> m]
            /\ input = <<"L", c, z, m>> \o tail
       \/ \E k \in 0..Len(RelativeOrbitInput(31)), j \in CorruptPlaces :
            /\ call = [fn |-> "from_str", parser |-> "sentinel2::parse_product",
                       family |-> "letter_case", lower |-> k, corrupt |-> j]
            /\ input = Corrupt(LowerAt(RelativeOrbitInput(31), k), j, "#")
       \/ \E token \in ProcessingLevelTokens :
            /\ call = [fn |-> "from_str", parser |-> "landsat::parse_product",
                       family |-> "processing_level", token |-> token]
            /\ input = ProcessingLevelInput(token)
    /\ pc = "start"
    /\ result = "none"
    /\ NoDispatch

\* <$out as FromStr>::from_str for the $out of the parser p
from_str(p) ==
    /\ pc = "start"
    /\ call.fn = "from_str"
    /\ call.parser = p
    /\ result' = impl_from_str(p, input)
    /\ pc' = Finish(result')
    /\ UNCHANGED <<call, input, closest_e, closest_by, attempts, s1>>

Sentinel2ProductFromStr == from_str("sentinel2::parse_product")

Sentinel3ProductFromStr == from_str("sentinel3::parse_product")

LandsatProductFromStr == from_str("landsat::parse_product")

LandsatSceneIdFromStr == from_str("landsat::parse_scene_id")

NextFromStr ==
    \/ Sentinel2ProductFromStr
    \/ Sentinel3ProductFromStr
    \/ LandsatProductFromStr
    \/ LandsatSceneIdFromStr

SpecFromStr == InitFromStr /\ [][NextFromStr]_vars

--------------------------------------------------------------------------
(* Calls of the fixed-width fields: take_n_digits and take_alphanumeric_n  *)

\* characters of the inputs of take_n_digits: digits, a letter, a separator and a
\* letter that is not ASCII
DigitFieldChars == {"2", "5", "6", "9", "a", "_", NonAsciiLetter}

\* characters of the inputs of take_alphanumeric_n
AlphanumericFieldChars == {"2", "a", "Z", "_", NonAsciiLetter}

\* the widths take_alphanumeric_n is tried with: the ground station and the centre
\* (3), the tile (5)
AlphanumericWidths == {3, 5}

InitFields ==
    /\ \/ \E site \in TakeNDigitsSites :
            /\ call = [fn |-> "take_n_digits", family |-> "field", n |-> site.n, T |-> site.T]
            /\ input \in StringsUpTo(DigitFieldChars, site.n + 1)
       \/ \E n \in AlphanumericWidths :
            /\ call = [fn |-> "take_alphanumeric_n", family |-> "field", n |-> n]
            /\ input \in StringsUpTo(AlphanumericFieldChars, n + 1)
    /\ pc = "start"
    /\ result = "none"
    /\ NoDispatch

TakeNDigitsField ==
    /\ pc = "start"
    /\ call.fn = "take_n_digits"
    /\ call.family = "field"
    /\ result' = take_n_digits(call.n, call.T, input)
    /\ pc' = Finish(result')
    /\ UNCHANGED <<call, input, closest_e, closest_by, attempts, s1>>

TakeAlphanumericN ==
    /\ pc = "start"
    /\ call.fn = "take_alphanumeric_n"
    /\ result' = take_alphanumeric_n(call.n, input)
    /\ pc' = Finish(result')
    /\ UNCHANGED <<call, input, closest_e, closest_by, attempts, s1>>

NextFields == TakeNDigitsField \/ TakeAlphanumericN

SpecFields == InitFields /\ [][NextFields]_vars

--------------------------------------------------------------------------
(* Properties of the dispatcher                                            *)

\* the order of the grammars and the Identifier variant of each, as documented
GrammarOrder ==
    <<[parser |-> "sentinel1::parse_product", variant |-> "Sentinel1Product"],
      [parser |-> "sentinel2::parse_product", variant |-> "Sentinel2Product"],
      [parser |-> "sentinel3::parse_product", variant |-> "Sentinel3Product"],
      [parser |-> "landsat::parse_product", variant |-> "LandsatProduct"],
      [parser |-> "landsat::parse_scene_id", variant |-> "LandsatSceneId"],
      [parser |-> "sentinel1::parse_dataset", variant |-> "Sentinel1Dataset"]>>

\* the k-th grammar of the order accepts the input of the call
Accepts(k) == run_parser(GrammarOrder[k].parser, input).tag = "Ok"

\* the call of Identifier::from_str has returned
Dispatched == call.fn = "Identifier::from_str" /\ pc = "returned"

\* the call of Identifier::from_str has returned an error
DispatchFailed == Dispatched /\ result.tag = "Err"

\* the offsets the errors of the grammar attempts carry
AttemptOffsets == {error_pos(attempts[k].outcome.err) : k \in 1..Len(attempts)}

\* the first attempt whose error carries the largest offset
FurthestAttempt ==
    Min({k \in 1..Len(attempts) : error_pos(attempts[k].outcome.err) = Max(AttemptOffsets)})

\* C1: a call of Identifier::from_str that returns has tried the grammars in the order
\* Sentinel-1 product, Sentinel-2 product, Sentinel-3 product, Landsat product, Landsat
\* scene id, Sentinel-1 dataset, each on the whole input, and when some grammar accepts
\* the input it returns the record of the first one in that order that does, in that
\* grammar's variant, whatever later grammars would accept
C1_FirstGrammarInOrderWins ==
    Dispatched =>
        /\ \A k \in 1..Len(attempts) :
             attempts[k].parser = GrammarOrder[k].parser /\ attempts[k].input = input
        /\ \E accepting \in {{k \in 1..Len(GrammarOrder) : Accepts(k)}} :
             IF accepting = {}
             THEN result.tag = "Err" /\ Len(attempts) = Len(GrammarOrder)
             ELSE \E first \in {Min(accepting)} :
                    /\ Len(attempts) = first
                    /\ result = [tag |-> "Ok",
                                 val |-> [variant |-> GrammarOrder[first].variant,
                                          record |-> run_parser(GrammarOrder[first].parser,
                                                                input).val]]

C1_Witness ==
    /\ Dispatched
    /\ result.tag = "Ok"
    /\ result.val.variant = "Sentinel2Product"
    /\ result.val.record.relative_orbit_number = 31
    /\ Len(attempts) = 2
    /\ attempts[1].outcome.tag = "Err"
    /\ Accepts(6)

\* C2: when every grammar fails, the offset of the error returned is the largest of the
\* offsets of the errors of the six attempts; it is 0 when every attempt fails at 0,
\* as on "garbage"
C2_ReturnedOffsetIsLargest ==
    DispatchFailed =>
        /\ Len(attempts) = Len(Registry)
        /\ \A k \in 1..Len(attempts) : attempts[k].outcome.tag = "Err"
        /\ error_pos(result.err) = Max(AttemptOffsets)
        /\ AttemptOffsets = {0} => error_pos(result.err) = 0

C2_Witness ==
    /\ DispatchFailed
    /\ \E j, k \in 1..Len(attempts) :
         /\ j > k
         /\ error_pos(attempts[j].outcome.err) > error_pos(attempts[k].outcome.err)
         /\ error_pos(attempts[k].outcome.err) > 0
         /\ error_pos(result.err) = error_pos(attempts[j].outcome.err)
         /\ error_pos(result.err) > MaxS1Offset

\* C3: when every grammar fails, the error returned is the error of the first grammar,
\* in the order of the attempts, among those that fail at the largest offset
C3_TieGoesToEarliestGrammar ==
    DispatchFailed => result.err = attempts[FurthestAttempt].outcome.err

\* C4: when every grammar fails, the error returned is the error of an attempt that
\* failed at the largest offset, with its discriminator and its offset, also when all
\* grammars fail at offset 0
C4_ReturnedErrorIsAnAttemptsError ==
    DispatchFailed =>
        \E k \in 1..Len(attempts) :
            /\ error_pos(attempts[k].outcome.err) = Max(AttemptOffsets)
            /\ result.err.kind = attempts[k].outcome.err.kind
            /\ result.err.pos = attempts[k].outcome.err.pos

--------------------------------------------------------------------------
(* Properties of the digit runs                                            *)

\* the call was given the n-digit rendering of call.v, followed by call.suffix
DigitRunGiven == pc \in Finished /\ call.fn \in {"take_n_digits", "take_n_digits_in_range"} /\ call.v >= 0

\* C5: take_n_digits_in_range(w, lo..=hi) on a w-digit string returns the value and the
\* suffix after the digits when the value lies in [lo, hi], and fails with an error
\* positioned at the start of the field when it lies outside
C5_RangeEnforced ==
    (DigitRunGiven /\ call.fn = "take_n_digits_in_range") =>
        IF call.range[1] <= call.v /\ call.v <= call.range[2]
        THEN result = Ok(call.suffix, call.v)
        ELSE result = Error(input)

\* C6: take_n_digits(w) on v formatted as a zero-padded w-digit string followed by a
\* suffix returns exactly v and leaves exactly that suffix
C6_DigitRunRoundTrip ==
    (DigitRunGiven /\ call.fn = "take_n_digits") => result = Ok(call.suffix, call.v)

\* C7: at every (width, integer type) the program uses, converting the digits consumed
\* cannot overflow: the expect in take_n_digits never panics
C7_ConversionInfallible ==
    (pc \in Finished /\ call.fn \in {"take_n_digits", "take_n_digits_in_range"}) =>
        result.tag # "Panic"

--------------------------------------------------------------------------
(* Properties of the temporal parsers                                      *)

\* the date-time a call of parse_esa_timestamp spells out
TimestampGiven ==
    NaiveDateTime(NaiveDate(call.year, call.month, call.day),
                  [hour |-> call.hour, minute |-> call.minute, second |-> call.second])

\* C8: when parse_esa_timestamp succeeds on a date and a time, it yields the same
\* date-time with the separator "T", with "t" and with none, and each time it consumes
\* the whole timestamp; 20200207T051836 and 20200207051836 give 2020-02-07 05:18:36
C8_SeparatorEquivalence ==
    (pc \in Finished /\ call.fn = "parse_esa_timestamp" /\ result.tag = "Ok") =>
        /\ result = Ok(call.suffix, TimestampGiven)
        /\ \A sep \in Separators :
             parse_esa_timestamp(DateField(call) \o sep \o TimeField(call) \o call.suffix) = result

C8_Witness ==
    /\ pc = "returned"
    /\ call.fn = "parse_esa_timestamp"
    /\ call.sep = <<"t">>
    /\ result.tag = "Ok"
    /\ result.val = NaiveDateTime(NaiveDate(2020, 2, 7), [hour |-> 5, minute |-> 18, second |-> 36])

\* the days from 1970-01-01 to y-m-d in the proleptic Gregorian calendar
DaysFromCivil(y, m, d) ==
    LET yy == IF m <= 2 THEN y - 1 ELSE y
        era == yy \div 400
        yoe == yy - era * 400
        mp == IF m > 2 THEN m - 3 ELSE m + 9
        doy == (153 * mp + 2) \div 5 + d - 1
        doe == yoe * 365 + yoe \div 4 - yoe \div 100 + doy
    IN  era * 146097 + doe - 719468

JulianExample(y, d, date) ==
    (call.sign # <<"-">> /\ call.year = y /\ call.day_of_year = d) => result.val = date

\* C9: parse_julian_date on [sign]YYYYDDD rejects no day of year 000..999 and returns
\* the date (DDD - 1) days after January 1 of the signed year
C9_JulianDateConversion ==
    (pc \in Finished /\ call.fn = "parse_julian_date" /\ call.wellformed) =>
        /\ result.tag = "Ok"
        /\ result.rest = call.suffix
        /\ from_ymd_opt(result.val.year, result.val.month, result.val.day).some
        /\ DaysFromCivil(result.val.year, result.val.month, result.val.day)
             = DaysFromCivil(SignValue(call.sign) * call.year, 1, 1) + call.day_of_year - 1
        /\ JulianExample(2020, 46, NaiveDate(2020, 2, 15))
        /\ JulianExample(2019, 46, NaiveDate(2019, 2, 15))
        /\ JulianExample(2013, 76, NaiveDate(2013, 3, 17))
        /\ JulianExample(2020, 60, NaiveDate(2020, 2, 29))
        /\ JulianExample(2019, 60, NaiveDate(2019, 3, 1))

C9_Witness ==
    /\ pc = "returned"
    /\ call.fn = "parse_julian_date"
    /\ call.wellformed
    /\ call.sign = <<>> /\ call.year = 2020 /\ call.day_of_year = 0
    /\ result.tag = "Ok"
    /\ result.val = NaiveDate(2019, 12, 31)

\* C10: every call of parse_simple_date ends with a date and the unconsumed suffix or
\* with a positioned error, also when the day does not exist in its month
C10_DateNeverAborts ==
    (pc \in Finished /\ call.fn = "parse_simple_date") => result.tag \in {"Ok", "Error"}

--------------------------------------------------------------------------
(* Properties of parse_simple_time and of date_year                        *)

\* C11: parse_simple_time on HHMMSS with hour 00..24, minute 00..59 and second 00..60
\* returns a time and the suffix or a positioned error and never aborts, hour 24 and
\* second 60 included; an hour above 24, a minute above 59 or a second above 60 fails
\* with an error at the start of the first such field
C11_TimeNeverAborts ==
    (pc \in Finished /\ call.fn = "parse_simple_time") =>
        /\ result.tag \in {"Ok", "Error"}
        /\ call.wellformed =>
             IF call.hour > 24 THEN result = Error(input)
             ELSE IF call.minute > 59 THEN result = Error(Drop(input, 2))
             ELSE IF call.second > 60 THEN result = Error(Drop(input, 4))
             ELSE result.tag = "Ok" => result.rest = call.suffix

\* the digits and the suffix of the call of date_year
YearGiven == Format(call.year, 4) \o call.suffix

\* C12: date_year on an optional '+' or '-' and 4 ASCII digits returns the sign times
\* the magnitude, the sign defaulting to '+': "+YYYY" and "YYYY" give the same value,
\* "-YYYY" its negation, the value lies in -9999..9999, and it fails when the sign is
\* not followed by 4 digits
C12_SignedYear ==
    (pc \in Finished /\ call.fn = "date_year") =>
        IF call.wellformed
        THEN /\ result = Ok(call.suffix, SignValue(call.sign) * call.year)
             /\ result.val \in (0 - 9999)..9999
             /\ date_year(<<"+">> \o YearGiven) = date_year(YearGiven)
             /\ date_year(<<"-">> \o YearGiven).val = 0 - date_year(YearGiven).val
        ELSE result.tag = "Error"

C12_Witness ==
    /\ pc = "returned"
    /\ call.fn = "date_year"
    /\ call.wellformed
    /\ call.sign = <<"-">>
    /\ input = <<"-", "2", "0", "1", "3", "_">>
    /\ result = Ok(<<"_">>, 0 - 2013)

--------------------------------------------------------------------------
(* Properties of the grammars and of their from_str                        *)

\* the call of a from_str on an identifier followed by trailing input has ended
TrailingGiven ==
    pc \in Finished /\ call.fn = "from_str" /\ call.family = "trailing" /\ call.trailing # <<>>

\* C13: when a grammar of src accepts s, the grammar and its from_str accept s followed
\* by any trailing string, and from_str returns the same record whenever the trailing
\* string is left unconsumed
C13_TrailingInputIgnored ==
    TrailingGiven =>
        \A alone \in {run_parser(call.parser, call.base)} :
            alone.tag = "Ok" =>
                \A followed \in {run_parser(call.parser, input)} :
                    /\ followed.tag = "Ok"
                    /\ result.tag = "Ok"
                    /\ followed.rest = alone.rest \o call.trailing => result.val = alone.val

C13_Witness ==
    /\ TrailingGiven
    /\ call.parser = "sentinel2::parse_product"
    /\ call.base = <<"S", "2", "A", "_", "M", "S", "I", "L", "1", "C", "_", "2", "0", "1", "7", "0", "1", "0", "5", "T", "0", "1", "3", "4", "4", "2", "_", "N", "0", "2", "0", "4", "_", "R", "0", "3", "1", "_", "T", "5", "3", "N", "M", "J", "_", "2", "0", "1", "7", "0", "1", "0", "5", "T", "0", "1", "3", "4", "4", "3">>
    /\ call.trailing = <<".", "S", "A", "F", "E">>
    /\ result.tag = "Ok"
    /\ result.val.relative_orbit_number = 31

--------------------------------------------------------------------------
(* The identifiers of the examples                                         *)

RECURSIVE Number(_)
\* the number a string of digits spells
Number(d) ==
    IF d = <<>> THEN 0 ELSE 10 * Number(SubSeq(d, 1, Len(d) - 1)) + IndexOf(d[Len(d)], Digits) - 1

SceneIdExample == <<"L", "C", "8", "0", "3", "9", "0", "2", "2", "2", "0", "1", "3", "0", "7", "6", "E", "D", "C", "0", "0">>

\* the record the documentation gives for SceneIdExample
SceneIdExampleRecord ==
    [sensor |-> "OLI_TRIS",
     mission |-> <<"Landsat", 8>>,
     wrs_path |-> 39,
     wrs_row |-> 22,
     acquire_date |-> NaiveDate(2013, 3, 17),
     ground_station_identifier |-> <<"E", "D", "C">>,
     archive_version_number |-> 0]

\* Identifier::from_str has returned and the Sentinel-1 product grammar, tried first,
\* did not accept the input
DispatchedPastSentinel1 == Dispatched /\ s1.product.tag # "Ok"

\* C14: parse_scene_id decodes 'L', the sensor letter, the mission digit, 3 digits of
\* path, 3 of row, the Julian date, 3 ground-station characters and 2 digits of
\* version by position; on "LC80390222013076EDC00" it yields OLI_TRIS, Landsat 8,
\* path 39, row 22, 2013-03-17, "EDC", version 0, and Identifier::from_str yields
\* that record as LandsatSceneId
C14_SceneIdExample ==
    DispatchedPastSentinel1 =>
        /\ input = SceneIdExample =>
             /\ parse_scene_id(input) = Ok(<<>>, SceneIdExampleRecord)
             /\ result = [tag |-> "Ok",
                          val |-> [variant |-> "LandsatSceneId", record |-> SceneIdExampleRecord]]
        /\ (result.tag = "Ok" /\ result.val.variant = "LandsatSceneId") =>
             /\ to_uppercase(<<input[1]>>) = <<"L">>
             /\ result.val.record.mission = <<"Landsat", Number(<<input[3]>>)>>
             /\ result.val.record.wrs_path = Number(SubSeq(input, 4, 6))
             /\ result.val.record.wrs_row = Number(SubSeq(input, 7, 9))
             /\ result.val.record.acquire_date
                  = add_days(NaiveDate(Number(SubSeq(input, 10, 13)), 1, 1),
                             Number(SubSeq(input, 14, 16)) - 1)
             /\ result.val.record.ground_station_identifier
                  = to_uppercase(SubSeq(input, 17, 19))
             /\ result.val.record.archive_version_number = Number(SubSeq(input, 20, 21))

C14_Witness ==
    /\ DispatchedPastSentinel1
    /\ input = SceneIdExample
    /\ Len(attempts) = 5
    /\ result.tag = "Ok"
    /\ result.val.variant = "LandsatSceneId"
    /\ result.val.record.acquire_date = NaiveDate(2013, 3, 17)

Sentinel2Example == <<"S", "2", "A", "_", "M", "S", "I", "L", "1", "C", "_", "2", "0", "1", "7", "0", "1", "0", "5", "T", "0", "1", "3", "4", "4", "2", "_", "N", "0", "2", "0", "4", "_", "R", "0", "3", "1", "_", "T", "5", "3", "N", "M", "J", "_", "2", "0", "1", "7", "0", "1", "0", "5", "T", "0", "1", "3", "4", "4", "3">>

\* the record the documentation gives for Sentinel2Example
Sentinel2ExampleRecord ==
    [mission_id |-> "S2A",
     product_level |-> "L1C",
     start_datetime |-> NaiveDateTime(NaiveDate(2017, 1, 5),
                                      [hour |-> 1, minute |-> 34, second |-> 42]),
     pdgs_baseline_number |-> <<2, 4>>,
     relative_orbit_number |-> 31,
     tile_number |-> <<"5", "3", "N", "M", "J">>,
     product_discriminator |-> <<"2", "0", "1", "7", "0", "1", "0", "5", "T", "0", "1", "3", "4", "4", "3">>]

\* C15: the Sentinel-2 product grammar decodes the mission id, "MSI" and the level, the
\* start timestamp, 'N' and 2+2 digits of baseline, 'R' and 3 digits of relative orbit,
\* 'T' and 5 characters of tile, and 15 characters of discriminator, separated by '_';
\* on "S2A_MSIL1C_20170105T013442_N0204_R031_T53NMJ_20170105T013443", with or without
\* ".SAFE" after it, it yields S2A, L1C, 2017-01-05 01:34:42, (2,4), 31, "53NMJ",
\* "20170105T013443", and Identifier::from_str yields that record as Sentinel2Product
C15_Sentinel2Example ==
    DispatchedPastSentinel1 =>
        /\ input \in {Sentinel2Example, Sentinel2Example \o <<".", "S", "A", "F", "E">>} =>
             /\ s2_parse_product(input) = Ok(Drop(input, 60), Sentinel2ExampleRecord)
             /\ result = [tag |-> "Ok",
                          val |-> [variant |-> "Sentinel2Product",
                                   record |-> Sentinel2ExampleRecord]]
        /\ (result.tag = "Ok" /\ result.val.variant = "Sentinel2Product") =>
             /\ to_uppercase(SubSeq(input, 1, 3)) = <<"S", "2", "A">>
             /\ to_uppercase(SubSeq(input, 4, 7)) = <<"_", "M", "S", "I">>
             /\ {input[11], input[27], input[33], input[38], input[45]} = {"_"}
             /\ result.val.record.pdgs_baseline_number
                  = <<Number(SubSeq(input, 29, 30)), Number(SubSeq(input, 31, 32))>>
             /\ result.val.record.relative_orbit_number = Number(SubSeq(input, 35, 37))
             /\ result.val.record.tile_number = to_uppercase(SubSeq(input, 40, 44))
             /\ result.val.record.product_discriminator = to_uppercase(SubSeq(input, 46, 60))

C15_Witness ==
    /\ DispatchedPastSentinel1
    /\ input = Sentinel2Example \o <<".", "S", "A", "F", "E">>
    /\ Len(attempts) = 2
    /\ result.tag = "Ok"
    /\ result.val.variant = "Sentinel2Product"
    /\ result.val.record.tile_number = <<"5", "3", "N", "M", "J">>

--------------------------------------------------------------------------
(* Properties of the fields of the grammars                                *)

\* C16: after 'R' the Sentinel-2 product grammar accepts the 3-digit values 001..143,
\* which parse to that number, and on every other 3-digit value, 000 and 144..999,
\* parse_product returns an error at the offset of the first of the three digits
C16_RelativeOrbitRange ==
    (pc \in Finished /\ call.fn = "from_str" /\ call.family = "relative_orbit") =>
        IF call.v \in 1..143
        THEN result.tag = "Ok" /\ result.val.relative_orbit_number = call.v
        ELSE result = Err(FailedAtPosition(34))

\* the alphabet of the field the call reads
FieldAlphabet == IF call.fn = "take_n_digits" THEN DigitSet ELSE DigitSet \cup UpperSet \cup LowerSet

\* the input starts with call.n characters of the alphabet of the field
FieldPresent == Len(input) >= call.n /\ \A k \in 1..call.n : input[k] \in FieldAlphabet

\* C17: take_n_digits(w) and take_alphanumeric_n(w) consume exactly w characters, all
\* ASCII digits, respectively ASCII letters or digits, or fail; when fewer than w
\* characters are there or one of the first w is outside the alphabet, a letter or
\* digit that is not ASCII included, the error is at the start of the field
C17_FixedWidthField ==
    (pc \in Finished /\ call.fn \in {"take_n_digits", "take_alphanumeric_n"}
                     /\ call.family = "field") =>
        IF FieldPresent
        THEN /\ result.tag = "Ok"
             /\ result.rest = Drop(input, call.n)
             /\ result.val = IF call.fn = "take_n_digits" THEN Number(Take(input, call.n))
                             ELSE Take(input, call.n)
        ELSE result = Error(input)


\* t is what is left of s after some of its characters
IsSuffix(t, s) == Len(t) <= Len(s) /\ t = Drop(s, Len(s) - Len(t))

\* C18: a FailedAtPosition(p) that map_parser makes of the failure of a grammar on s
\* has p = len(s) - len(remaining input of the failure), the remaining input is a
\* suffix of s, and 0 <= p <= len(s)
C18_OffsetWithinInput ==
    (pc \in Finished /\ call.fn = "from_str" /\ result.tag = "Err") =>
        \A r \in {run_parser(call.parser, input)} :
            /\ r.tag = "Error"
            /\ IsSuffix(r.input, input)
            /\ result.err = FailedAtPosition(len(input) - len(r.input))
            /\ result.err.pos \in 0..len(input)

C18_Witness ==
    /\ pc = "returned"
    /\ call.fn = "from_str"
    /\ call.parser = "landsat::parse_scene_id"
    /\ input = <<"L", NonAsciiLetter, "X">>
    /\ result = Err(FailedAtPosition(3))

\* the characters parse_sensor reads a sensor from
SensorLetters == {"C", "O", "T", "E", "M", "c", "o", "t", "e", "m"}

Field(at, n, chars) == [at |-> at, n |-> n, chars |-> chars]

\* the fields of a Landsat scene id, from left to right: offset, width, alphabet
SceneIdFields ==
    <<Field(0, 1, {"L", "l"}), Field(1, 1, SensorLetters), Field(2, 1, DigitSet \ {"0"}),
      Field(3, 3, DigitSet), Field(6, 3, DigitSet), Field(9, 4, DigitSet),
      Field(13, 3, DigitSet), Field(16, 3, DigitSet \cup UpperSet \cup LowerSet),
      Field(19, 2, DigitSet)>>

\* the first fields of a Landsat product identifier, those at a fixed offset
ProductFields ==
    <<Field(0, 1, {"L", "l"}), Field(1, 1, SensorLetters), Field(2, 1, {"0"}),
      Field(3, 1, DigitSet \ {"0"}), Field(4, 1, {"_"})>>

FieldHolds(f, s) == Len(s) >= f.at + f.n /\ \A k \in 1..f.n : s[f.at + k] \in f.chars

\* the offset of the first field of fields that s does not satisfy, -1 if there is none
FirstRejected(fields, s) ==
    IF \A k \in 1..Len(fields) : FieldHolds(fields[k], s) THEN 0 - 1
    ELSE fields[Min({k \in 1..Len(fields) : ~FieldHolds(fields[k], s)})].at

SceneIdMatchingOrder(s) ==
    <<Field(0, 1, {"L", "l"}), Field(1, 1, Range(s)), Field(2, 1, DigitSet \ {"0"}),
      Field(1, 1, SensorLetters),
      Field(3, 3, DigitSet), Field(6, 3, DigitSet), Field(9, 4, DigitSet),
      Field(13, 3, DigitSet), Field(16, 3, DigitSet \cup UpperSet \cup LowerSet),
      Field(19, 2, DigitSet)>>

\* the first fields of a Landsat product identifier in the order parse_product
\* matches them
ProductMatchingOrder(s) ==
    <<Field(0, 1, {"L", "l"}), Field(1, 1, Range(s)), Field(2, 1, {"0"}),
      Field(3, 1, DigitSet \ {"0"}), Field(1, 1, SensorLetters), Field(4, 1, {"_"})>>

KnownProcessingLevels ==
    { [t |-> <<"L", "1", "T", "P">>, v |-> "L1TP"],
      [t |-> <<"L", "1", "G", "S">>, v |-> "L1GS"],
      [t |-> <<"L", "1", "G", "T">>, v |-> "L1GT"],
      [t |-> <<"L", "2", "S", "P">>, v |-> "L2SP"],
      [t |-> <<"L", "2", "S", "R">>, v |-> "L2SR"],
      [t |-> <<"C", "U">>, v |-> "CU"],
      [t |-> <<"A", "K">>, v |-> "AK"],
      [t |-> <<"H", "I">>, v |-> "HI"] }

\* the ProcessingLevel of the token X: the variant it spells in any case, or else
\* Other(uppercase(X))
ProcessingLevelOf(token) ==
    IF \E e \in KnownProcessingLevels : e.t = to_uppercase(token)
    THEN <<(CHOOSE e \in KnownProcessingLevels : e.t = to_uppercase(token)).v>>
    ELSE <<"Other", to_uppercase(token)>>

\* C20: the Landsat product grammar accepts any alphanumeric processing-level token: a
\* token that is L1TP, L1GS, L1GT, L2SP, L2SR, CU, AK or HI in any case gives that
\* variant, every other token X gives Other(uppercase(X)), and the rest of the
\* identifier is parsed as usual
C20_ProcessingLevelToken ==
    (pc \in Finished /\ call.fn = "from_str" /\ call.family = "processing_level") =>
        /\ result.tag = "Ok"
        /\ result.val.processing_level = ProcessingLevelOf(call.token)
        /\ result.val.wrs_path = 29
        /\ result.val.wrs_row = 30
        /\ result.val.acquire_date = NaiveDate(2015, 12, 9)
        /\ result.val.collection_category = Some("RealTime")

\* the Sensor of the sensor letter c of a Landsat identifier of the mission digit m
SensorOf(c, m) ==
    CASE to_ascii_uppercase(c) = "C" -> "OLI_TRIS"
      [] to_ascii_uppercase(c) = "O" -> "OLI"
      [] to_ascii_uppercase(c) = "E" -> "ETM_PLUS"
      [] to_ascii_uppercase(c) = "M" -> "MSS"
      [] to_ascii_uppercase(c) = "T" -> IF m \in {"4", "5"} THEN "TM" ELSE "IRS"

\* the Landsat identifiers of the sensor letter c and the mission digit m in which
\* every other field is valid
WellFormedLandsat(c, m) ==
    { <<"L", c, m, "0", "3", "9", "0", "2", "2", "2", "0", "1", "3", "0", "7", "6", "E", "D", "C", "0", "0">>,
      <<"L", c, "0", m, "_", "L", "2", "S", "P", "_", "0", "0", "8", "0", "0", "8", "_", "2", "0", "1", "8", "0", "5", "2", "0", "_", "2", "0", "2", "0", "0", "9", "0", "1", "_", "0", "2", "_", "T", "2">> }

\* C21: both Landsat grammars decode the sensor letter in either case, C as OLI_TRIS,
\* O as OLI, E as ETM_PLUS, M as MSS, T as TM when the mission digit is 4 or 5 and as
\* IRS for the other mission digits, and the mission of the record is the digit of
\* the input
C21_SensorDecoded ==
    (pc \in Finished /\ call.fn = "from_str" /\ call.family = "sensor") =>
        /\ result.tag = "Ok" =>
              /\ call.sensor \in SensorLetters
              /\ call.mission \in DigitSet \ {"0"}
              /\ result.val.sensor = SensorOf(call.sensor, call.mission)
              /\ result.val.mission = <<"Landsat", DigitValue(call.mission)>>
        /\ (call.sensor \in SensorLetters /\ call.mission \in DigitSet \ {"0"}
                /\ input \in WellFormedLandsat(call.sensor, call.mission)) =>
              result.tag = "Ok"

\* a lower-case t of mission 7 is read as IRS
C21_Witness ==
    /\ pc = "returned"
    /\ call.fn = "from_str"
    /\ call.family = "sensor"
    /\ call.sensor = "t"
    /\ call.mission = "7"
    /\ result.tag = "Ok"
    /\ result.val.sensor = "IRS"
    /\ result.val.mission = <<"Landsat", 7>>

\* the Landsat grammars
LandsatParsers == {"landsat::parse_scene_id", "landsat::parse_product"}

\* C22: the panic "invalid landsat satellite number" of MissionId::from is not reached
\* through the Landsat grammars: the value converted lies in 1..=9, and a mission
\* digit 0 or a character that is no digit is rejected with a positioned error
C22_MissionPanicUnreachable ==
    (pc \in Finished /\ call.fn = "from_str" /\ call.parser \in LandsatParsers) =>
        /\ result # Panic("invalid landsat satellite number")
        /\ result.tag = "Ok" => \E v \in 1..9 : result.val.mission = MissionId_from(v).val
        /\ (call.family = "sensor" /\ call.mission \notin DigitSet \ {"0"}) =>
              /\ result.tag = "Err"
              /\ result.err.kind = "FailedAtPosition"

\* a scene id of the mission digit 0 in which every other field is valid is rejected
\* at the mission digit
C22_Witness ==
    /\ pc = "returned"
    /\ call.fn = "from_str"
    /\ call.parser = "landsat::parse_scene_id"
    /\ call.family = "sensor"
    /\ call.sensor = "C"
    /\ call.mission = "0"
    /\ Len(input) = 21
    /\ input[16] = "6"
    /\ result = Err(FailedAtPosition(2))

\* s with all ASCII letters lower-cased, and upper-cased
AsciiLowerCased(s) == [k \in DOMAIN s |-> to_ascii_lowercase(s[k])]

AsciiUpperCased(s) == [k \in DOMAIN s |-> to_ascii_uppercase(s[k])]

\* C23: the Sentinel-2 product grammar is case-insensitive: on s, on s with all ASCII
\* letters lower-cased and on s with all ASCII letters upper-cased it fails at the
\* same offset each time, or succeeds each time with the same record, whose tile
\* number and product discriminator are upper-cased
C23_CaseInsensitive ==
    (pc \in Finished /\ call.fn = "from_str" /\ call.parser = "sentinel2::parse_product") =>
        \A lower \in {impl_from_str(call.parser, AsciiLowerCased(input))} :
        \A upper \in {impl_from_str(call.parser, AsciiUpperCased(input))} :
            \/ /\ result.tag = "Err"
               /\ result.err.kind = "FailedAtPosition"
               /\ lower = result
               /\ upper = result
            \/ /\ result.tag = "Ok"
               /\ lower = result
               /\ upper = result
               /\ result.val.tile_number = AsciiUpperCased(result.val.tile_number)
               /\ result.val.product_discriminator =
                      AsciiUpperCased(result.val.product_discriminator)

==========================================================================
